---- MODULE Spec2Model ----
(***************************************************************************)
(* Lifecycle and ledger engine of the IntelliRoute Africa backend:         *)
(* the Inventory stock ledger (models/Route.js, controllers/inventory.js), *)
(* the Order lifecycle and assignment (models/Order.js,                    *)
(* controllers/orders.js) and the route start/complete steps that write    *)
(* the vehicle record (controllers/routes.js).                             *)
(*                                                                         *)
(* Every request handler is an async function: it loads a document         *)
(* (findById), changes the in-memory copy and writes it back (save).  The  *)
(* load and each save are separate steps, so handlers interleave between   *)
(* them.  A save writes only the paths whose value differs from the loaded *)
(* copy ($set) and appends pushed array elements ($push); the schemas do   *)
(* not enable optimistic concurrency.                                      *)
(***************************************************************************)
EXTENDS Integers, Sequences, FiniteSets, TLC

VARIABLES
    item,       \* the persisted Inventory document
    ireq,       \* inventory request handlers in flight
    now,        \* the clock: days for the inventory, half minutes for the routes
    orders,     \* the persisted Order documents
    vehicles,   \* the persisted Vehicle documents
    routes,     \* the persisted Route documents
    oreq        \* order / route request handlers in flight

vars == <<item, ireq, now, orders, vehicles, routes, oreq>>
invVars == <<item, ireq, now>>
ordVars == <<orders, vehicles, routes, oreq>>

None == "none"
NoDate == -1     \* a Date path that is not set
NoNumber == -1   \* a Number path that is not set
NoDoc == [loaded |-> FALSE]   \* a handler variable that holds no document

Max(a, b) == IF a >= b THEN a ELSE b
Min(a, b) == IF a <= b THEN a ELSE b
Abs(a) == IF a < 0 THEN 0 - a ELSE a

(***************************************************************************)
(* Bounds                                                                  *)
(***************************************************************************)
MaxStock == 16      \* largest stock.current an "in" movement may reach
MaxMoves == 2       \* longest movements ledger

IReqs == {1, 2}     \* inventory handlers that may overlap
InitCurrents == {10}
Quantities == {-1, 6, 11}
ReorderPoints == {4}

(***************************************************************************)
(* Inventory ledger                                                        *)
(***************************************************************************)
MovementTypes == {"in", "out", "transfer", "adjustment", "damaged", "expired", "lost"}
DecreaseTypes == {"out", "damaged", "expired", "lost"}

\* InventorySchema.virtual('stockAvailable')
stockAvailable(doc) == Max(0, doc.current - doc.reserved)

\* InventorySchema.pre('save'): recompute stock.available and the status
preSaveInventory(doc) ==
    LET avail == Max(0, doc.current - doc.reserved)
        st == IF avail <= 0 THEN "out-of-stock"
              ELSE IF avail <= doc.reorderPoint THEN "low-stock"
              ELSE IF doc.status \in {"out-of-stock", "low-stock"} THEN "active"
              ELSE doc.status
    IN [doc EXCEPT !.available = avail, !.status = st]

\* Inventory.create with the schema defaults (reserved 0, status active)
newInventory(cur, rp) ==
    preSaveInventory([current |-> cur, reserved |-> 0, available |-> 0,
                      reorderPoint |-> rp, status |-> "active",
                      lastAlerted |-> NoDate, movements |-> <<>>])

\* document.save(): $set of every path the handler changed in its copy,
\* $push of the ledger entries it appended
ScalarPaths == {"current", "reserved", "available", "reorderPoint", "status", "lastAlerted"}
saveInventory(db, snap, loc) ==
    [f \in ScalarPaths \cup {"movements"} |->
        IF f = "movements"
        THEN db.movements \o SubSeq(loc.movements, Len(snap.movements) + 1, Len(loc.movements))
        ELSE IF loc[f] # snap[f] THEN loc[f] ELSE db[f]]

\* InventorySchema.methods.addMovement, up to the save
addMovementDoc(doc, type, quantity) ==
    LET pushed == [doc EXCEPT !.movements = Append(@, [type |-> type, quantity |-> Abs(quantity), reason |-> "movement"])]
    IN IF type = "in" \/ (type = "adjustment" /\ quantity > 0)
       THEN [pushed EXCEPT !.current = @ + Abs(quantity)]
       ELSE IF type \in DecreaseTypes \/ (type = "adjustment" /\ quantity < 0)
       THEN [pushed EXCEPT !.current = Max(0, @ - Abs(quantity))]
       ELSE pushed

\* InventorySchema.methods.reserveStock, after its availability check
reserveStockDoc(doc, quantity) ==
    [doc EXCEPT !.reserved = @ + quantity,
                !.movements = Append(@, [type |-> "out", quantity |-> quantity, reason |-> "Reserved"])]

\* InventorySchema.methods.releaseReservedStock
releaseReservedStockDoc(doc, quantity) ==
    LET releaseQuantity == Min(quantity, doc.reserved)
    IN [doc EXCEPT !.reserved = @ - releaseQuantity,
                   !.movements = Append(@, [type |-> "in", quantity |-> releaseQuantity, reason |-> "Released"])]

\* InventorySchema.methods.checkAlerts: the low-stock alert fires
lowStockFires(doc, t) ==
    \* daysSinceLastAlert is null when lastAlerted is not set; !daysSinceLastAlert
    \* is true for null and for 0
    LET daysSinceLastAlert == IF doc.lastAlerted # NoDate THEN t - doc.lastAlerted ELSE 0
    IN /\ stockAvailable(doc) <= doc.reorderPoint
       /\ (daysSinceLastAlert = 0 \/ daysSinceLastAlert >= 1)

IdleIReq == [pc |-> "idle", op |-> None, type |-> None, quantity |-> 0,
             path |-> None, value |-> None, snap |-> NoDoc, result |-> None]

\* ledger entries that handlers in flight are still going to push
InFlightI == Cardinality({r \in IReqs : ireq[r].pc = "save"})
LedgerRoom == Len(item.movements) + InFlightI < MaxMoves

\* addMovement without the stock check of the controller
AddMovementLoadNoStockCheck(r, type, quantity) ==
    /\ ireq[r].pc = "idle"
    /\ LedgerRoom
    /\ (type = "in" \/ type = "adjustment") => item.current + Abs(quantity) <= MaxStock
    /\ LET base == [IdleIReq EXCEPT !.op = "addMovement", !.type = type, !.quantity = quantity]
       IN ireq' = [ireq EXCEPT ![r] =
            IF quantity <= 0
            THEN [base EXCEPT !.result = "ValidationError"]
            ELSE [base EXCEPT !.pc = "save", !.snap = item]]
    /\ UNCHANGED <<item, now>>
    /\ UNCHANGED ordVars

\* controllers/inventory.js addMovement: load, validate, check the stock
AddMovementLoad(r, type, quantity) ==
    /\ ireq[r].pc = "idle"
    /\ LedgerRoom
    /\ (type = "in" \/ type = "adjustment") => item.current + Abs(quantity) <= MaxStock
    /\ LET base == [IdleIReq EXCEPT !.op = "addMovement", !.type = type, !.quantity = quantity]
       IN ireq' = [ireq EXCEPT ![r] =
            IF quantity <= 0
            THEN [base EXCEPT !.result = "ValidationError"]
            ELSE IF (type \in DecreaseTypes \/ (type = "adjustment" /\ quantity < 0))
                    /\ Abs(quantity) > item.current
            THEN [base EXCEPT !.result = "InsufficientStock"]
            ELSE [base EXCEPT !.pc = "save", !.snap = item]]
    /\ UNCHANGED <<item, now>>
    /\ UNCHANGED ordVars

\* addMovement with a transfer that takes the quantity out of the stock
AddMovementSaveTransferDecreases(r) ==
    /\ ireq[r].pc = "save" /\ ireq[r].op = "addMovement"
    /\ LET snap == ireq[r].snap
           moved == addMovementDoc(snap, ireq[r].type, ireq[r].quantity)
           loc == preSaveInventory(IF ireq[r].type = "transfer"
                                   THEN [moved EXCEPT !.current = Max(0, @ - ireq[r].quantity)]
                                   ELSE moved)
       IN item' = saveInventory(item, snap, loc)
    /\ ireq' = [ireq EXCEPT ![r].pc = "idle", ![r].snap = NoDoc, ![r].result = "ok"]
    /\ UNCHANGED now
    /\ UNCHANGED ordVars

\* item.addMovement(...): change the loaded copy and save it
AddMovementSave(r) ==
    /\ ireq[r].pc = "save" /\ ireq[r].op = "addMovement"
    /\ LET snap == ireq[r].snap
           loc == preSaveInventory(addMovementDoc(snap, ireq[r].type, ireq[r].quantity))
       IN item' = saveInventory(item, snap, loc)
    /\ ireq' = [ireq EXCEPT ![r].pc = "idle", ![r].snap = NoDoc, ![r].result = "ok"]
    /\ UNCHANGED now
    /\ UNCHANGED ordVars

\* reserveStock without the check of the available stock
ReserveStockLoadNoAvailabilityCheck(r, quantity) ==
    /\ ireq[r].pc = "idle"
    /\ LedgerRoom
    /\ LET base == [IdleIReq EXCEPT !.op = "reserveStock", !.quantity = quantity]
       IN ireq' = [ireq EXCEPT ![r] =
            IF quantity <= 0
            THEN [base EXCEPT !.result = "ValidationError"]
            ELSE [base EXCEPT !.pc = "save", !.snap = item]]
    /\ UNCHANGED <<item, now>>
    /\ UNCHANGED ordVars

\* controllers/inventory.js reserveStock: load, validate; the model method
\* throws before any change when the quantity exceeds stockAvailable
ReserveStockLoad(r, quantity) ==
    /\ ireq[r].pc = "idle"
    /\ LedgerRoom
    /\ LET base == [IdleIReq EXCEPT !.op = "reserveStock", !.quantity = quantity]
       IN ireq' = [ireq EXCEPT ![r] =
            IF quantity <= 0
            THEN [base EXCEPT !.result = "ValidationError"]
            ELSE IF quantity > stockAvailable(item)
            THEN [base EXCEPT !.result = "InsufficientStock"]
            ELSE [base EXCEPT !.pc = "save", !.snap = item]]
    /\ UNCHANGED <<item, now>>
    /\ UNCHANGED ordVars

ReserveStockSave(r) ==
    /\ ireq[r].pc = "save" /\ ireq[r].op = "reserveStock"
    /\ LET snap == ireq[r].snap
           loc == preSaveInventory(reserveStockDoc(snap, ireq[r].quantity))
       IN item' = saveInventory(item, snap, loc)
    /\ ireq' = [ireq EXCEPT ![r].pc = "idle", ![r].snap = NoDoc, ![r].result = "ok"]
    /\ UNCHANGED now
    /\ UNCHANGED ordVars

\* controllers/inventory.js releaseReservedStock
ReleaseReservedStockLoad(r, quantity) ==
    /\ ireq[r].pc = "idle"
    /\ LedgerRoom
    /\ LET base == [IdleIReq EXCEPT !.op = "releaseReservedStock", !.quantity = quantity]
       IN ireq' = [ireq EXCEPT ![r] =
            IF quantity <= 0
            THEN [base EXCEPT !.result = "ValidationError"]
            ELSE IF quantity > item.reserved
            THEN [base EXCEPT !.result = "ReleaseTooLarge"]
            ELSE [base EXCEPT !.pc = "save", !.snap = item]]
    /\ UNCHANGED <<item, now>>
    /\ UNCHANGED ordVars

ReleaseReservedStockSave(r) ==
    /\ ireq[r].pc = "save" /\ ireq[r].op = "releaseReservedStock"
    /\ LET snap == ireq[r].snap
           loc == preSaveInventory(releaseReservedStockDoc(snap, ireq[r].quantity))
       IN item' = saveInventory(item, snap, loc)
    /\ ireq' = [ireq EXCEPT ![r].pc = "idle", ![r].snap = NoDoc, ![r].result = "ok"]
    /\ UNCHANGED now
    /\ UNCHANGED ordVars

\* controllers/inventory.js checkAlerts: load; the method saves only when
\* an alert fired
CheckAlertsLoad(r) ==
    /\ ireq[r].pc = "idle"
    /\ LET base == [IdleIReq EXCEPT !.op = "checkAlerts"]
       IN ireq' = [ireq EXCEPT ![r] =
            IF lowStockFires(item, now)
            THEN [base EXCEPT !.pc = "save", !.snap = item]
            ELSE [base EXCEPT !.result = "ok"]]
    /\ UNCHANGED <<item, now>>
    /\ UNCHANGED ordVars

CheckAlertsSave(r) ==
    /\ ireq[r].pc = "save" /\ ireq[r].op = "checkAlerts"
    /\ LET snap == ireq[r].snap
           loc == preSaveInventory([snap EXCEPT !.lastAlerted = now])
       IN item' = saveInventory(item, snap, loc)
    /\ ireq' = [ireq EXCEPT ![r].pc = "idle", ![r].snap = NoDoc, ![r].result = "ok"]
    /\ UNCHANGED now
    /\ UNCHANGED ordVars

\* InventorySchema.status enum
InventoryStatuses == {"active", "inactive", "discontinued", "out-of-stock", "low-stock"}
\* the bodies of the updateInventoryItem requests: one path and its value
UpdateBodies == {<<"status", "out-of-stock">>, <<"status", "active">>,
                 <<"reorderPoint", 12>>}

\* controllers/inventory.js updateInventoryItem: load the item
UpdateInventoryItemLoad(r, body) ==
    /\ ireq[r].pc = "idle"
    /\ ireq' = [ireq EXCEPT ![r] = [IdleIReq EXCEPT !.op = "updateInventoryItem",
                                       !.path = body[1], !.value = body[2],
                                       !.pc = "update"]]
    /\ UNCHANGED <<item, now>>
    /\ UNCHANGED ordVars

\* updateInventoryItem: Inventory.findByIdAndUpdate(id, req.body,
\* {runValidators}): one $set of the body's paths on the stored item; no save
\* hook runs
UpdateInventoryItemWrite(r) ==
    /\ ireq[r].pc = "update" /\ ireq[r].op = "updateInventoryItem"
    /\ item' = [item EXCEPT ![ireq[r].path] = ireq[r].value]
    /\ ireq' = [ireq EXCEPT ![r].pc = "idle", ![r].result = "ok"]
    /\ UNCHANGED now
    /\ UNCHANGED ordVars

(***************************************************************************)
(* Orders, vehicles and routes                                             *)
(***************************************************************************)
MaxHist == 2        \* statusHistory entries pushed in a run, over all orders

OrderIds == {1, 2}
VehicleIds == {1, 2}
RouteIds == {1}
OReqs == {1, 2}     \* order / route handlers that may overlap
NoId == 0           \* an ObjectId path that is not set
Users == {"driver1", "customer1"}
\* the orders' cargo.totalWeight and the vehicles' capacity.weight: order 1
\* fits both vehicles, order 2 only vehicle 2
Weight == <<800, 1200>>
Capacity == <<1000, 2000>>
TotalAmounts == {115}
\* the vehicle each route was created with
RouteVehicle == <<1>>
\* the driver each vehicle was given (PUT /api/vehicles/:id/assign-driver)
VehicleDriver == <<None, "driver1">>

\* OrderSchema.status enum
OrderStatuses == {"pending", "confirmed", "processing", "assigned", "picked-up",
                  "in-transit", "out-for-delivery", "delivered", "cancelled",
                  "returned", "failed"}
\* the statuses requests ask updateStatus for
StatusInputs == {"pending", "confirmed", "delivered"}
\* VehicleSchema.status enum
VehicleStatuses == {"available", "in-transit", "maintenance", "out-of-service",
                    "loading", "unloading"}

\* User directory: driver.role === 'driver'
role(u) == IF u = "driver1" THEN "driver" ELSE "customer"

NoCancellation == [cancelledAt |-> FALSE, refundAmount |-> 0]

\* the orderNumber and the tracking.trackingNumber of the orders
OrderNumber == <<"ORD-1", "ORD-2">>
TrackingNumber == <<"TRK1", "TRK2">>

\* Order.create: status defaults to pending, nothing assigned
newOrder(orderNumber, trackingNumber, weight, amount) ==
    [orderNumber |-> orderNumber, trackingNumber |-> trackingNumber,
     status |-> "pending", assignedDriver |-> None, assignedVehicle |-> NoId,
     totalWeight |-> weight, totalAmount |-> amount, statusHistory |-> <<>>,
     cancellation |-> NoCancellation, actualDeliveryTime |-> FALSE]

\* Vehicle.create: status defaults to available
newVehicle(cap) ==
    [status |-> "available", assignedDriver |-> None, capacityWeight |-> cap,
     totalTrips |-> 0, totalDistance |-> 0, totalFuelConsumed |-> 0]

\* VehicleSchema.methods.assignDriver
assignDriverDoc(doc, driverId) == [doc EXCEPT !.assignedDriver = driverId]

\* the fleet before any request: every vehicle created, some given a driver
InitVehicles == [v \in VehicleIds |-> assignDriverDoc(newVehicle(Capacity[v]), VehicleDriver[v])]

\* OrderSchema.methods.updateStatus, up to the save
updateStatusDoc(doc, status) ==
    [doc EXCEPT !.status = status,
                !.statusHistory = Append(@, [status |-> status, automatic |-> FALSE]),
                !.actualDeliveryTime = IF status = "delivered" THEN TRUE ELSE @]

\* OrderSchema.methods.assignDriverAndVehicle, up to the save
assignDriverAndVehicleDoc(doc, driverId, vehicleId) ==
    [doc EXCEPT !.assignedDriver = driverId,
                !.assignedVehicle = vehicleId,
                !.status = "assigned",
                !.statusHistory = Append(@, [status |-> "assigned", automatic |-> TRUE])]

\* OrderSchema.methods.cancelOrder, up to the save
cancelOrderDoc(doc, refundAmount) ==
    [doc EXCEPT !.status = "cancelled",
                !.cancellation = [cancelledAt |-> TRUE, refundAmount |-> refundAmount],
                !.statusHistory = Append(@, [status |-> "cancelled", automatic |-> FALSE])]

\* controllers/orders.js cancelOrder: the refund of the loaded order
refundAmountOf(doc) == IF doc.status = "pending" THEN doc.totalAmount ELSE 0

\* controllers/orders.js cancelOrder: statuses that cannot be cancelled
cancelRejected(doc) == doc.status \in {"delivered", "cancelled"}

\* controllers/orders.js assignOrder: the capacity check
capacityInsufficient(orderDoc, vehicleDoc) == orderDoc.totalWeight > vehicleDoc.capacityWeight

\* order.save(): $set of the changed paths (a path holding a new Date always
\* counts as changed), $push of the appended history entries
OrderPaths == {"orderNumber", "trackingNumber", "status", "assignedDriver", "assignedVehicle", "totalWeight",
               "totalAmount", "cancellation", "actualDeliveryTime"}
saveOrder(db, snap, loc, dated) ==
    [f \in OrderPaths \cup {"statusHistory"} |->
        IF f = "statusHistory"
        THEN db.statusHistory \o SubSeq(loc.statusHistory, Len(snap.statusHistory) + 1, Len(loc.statusHistory))
        ELSE IF loc[f] # snap[f] \/ f \in dated THEN loc[f] ELSE db[f]]

\* vehicle.save(): validation of the status enum, then $set of the changed paths
vehicleValid(doc) == doc.status \in VehicleStatuses
VehiclePaths == {"status", "assignedDriver", "capacityWeight", "totalTrips",
                 "totalDistance", "totalFuelConsumed"}
saveVehicle(db, snap, loc) ==
    [f \in VehiclePaths |-> IF loc[f] # snap[f] THEN loc[f] ELSE db[f]]

(***************************************************************************)
(* Routes: waypoints, optimization, scheduling and metrics                 *)
(***************************************************************************)
MaxWaypoints == 3   \* longest waypoint list a route is created with
MaxClock == 453     \* the route clock stops here

TicksPerMinute == 2         \* the route clock counts half minutes
TickSteps == {150, 151}    \* 75 and 75.5 minutes
\* scheduling.plannedStartTime and plannedEndTime of the routes: 120.5 minutes
PlannedStart == 0
PlannedEnd == 241
\* metrics.actualDistance and metrics.fuelConsumed the tracking has recorded
ActualDistances == <<42>>
FuelConsumed == <<NoNumber>>
\* the statuses routes are created with (Route.create takes the body's status)
RouteInitStatuses == {"draft", "assigned", "in-progress"}
\* the waypoint types routes are created with: the two named groups and one other
WaypointTypes == {"pickup", "delivery", "fuel-stop"}
\* the latitude of the i-th waypoint supplied, in degrees; all on one meridian
Latitude == <<-1, 2, 0>>
Longitude == 36

\* waypoint lists a route may be created with: waypoint i at Latitude[i], with
\* order index i
WaypointLists ==
    UNION {{[i \in 1..n |-> [id |-> i, type |-> ty[i], lat |-> Latitude[((i - 1) % 3) + 1],
                              lng |-> Longitude, order |-> i, status |-> "pending",
                              actualArrival |-> NoDate, actualDeparture |-> NoDate]]
              : ty \in [1..n -> WaypointTypes]} : n \in 0..MaxWaypoints}

\* Route.create: the body's fields, the schema defaults for the rest
newRoute(status, vehicleId, waypoints, distance, fuel) ==
    [status |-> status, assignedVehicle |-> vehicleId, waypoints |-> waypoints,
     totalDistance |-> 0, estimatedDuration |-> 0, estimatedFuelCost |-> 0,
     plannedStartTime |-> PlannedStart, plannedEndTime |-> PlannedEnd,
     actualStartTime |-> NoDate, actualEndTime |-> NoDate,
     actualDuration |-> NoNumber, delayTime |-> NoNumber,
     actualDistance |-> distance, fuelConsumed |-> fuel]

\* Array.prototype.filter: the elements of a list that satisfy Keep, in order
RECURSIVE SelectSeqOf(_, _)
SelectSeqOf(ws, types) ==
    IF ws = <<>> THEN <<>>
    ELSE IF Head(ws).type \in types
         THEN <<Head(ws)>> \o SelectSeqOf(Tail(ws), types)
         ELSE SelectSeqOf(Tail(ws), types)

\* controllers/routes.js optimizeWaypoints: pickups, then deliveries, then the
\* others, each group in its order; order indices reassigned from 1
optimizeWaypoints(waypoints) ==
    LET pickupPoints == SelectSeqOf(waypoints, {"pickup"})
        deliveryPoints == SelectSeqOf(waypoints, {"delivery"})
        otherPoints == SelectSeqOf(waypoints, WaypointTypes \ {"pickup", "delivery"})
        optimized == pickupPoints \o deliveryPoints \o otherPoints
    IN [index \in 1..Len(optimized) |-> [optimized[index] EXCEPT !.order = index]]

\* controllers/routes.js calculateDistance, in metres: for two points on one
\* meridian (dLon = 0) the haversine formula gives R * |dLat| * PI / 180
MetresPerDegree == 111195
calculateDistance(lat1, lon1, lat2, lon2) == MetresPerDegree * Abs(lat2 - lat1)

\* controllers/routes.js calculateRouteMetrics: the distance in metres, the
\* duration ((km / 50) * 60) in thousandths of a minute, the fuel cost
\* ((km / 10) * 1.2) in 1/100000 of the currency unit
RECURSIVE SumDistance(_, _)
SumDistance(waypoints, i) ==
    IF i >= Len(waypoints) THEN 0
    ELSE calculateDistance(waypoints[i].lat, waypoints[i].lng,
                           waypoints[i + 1].lat, waypoints[i + 1].lng)
         + SumDistance(waypoints, i + 1)
calculateRouteMetrics(waypoints) ==
    LET totalDistance == SumDistance(waypoints, 1)
    IN [totalDistance |-> totalDistance,
        estimatedDuration |-> (totalDistance * 60) \div 50,
        estimatedFuelCost |-> totalDistance * 12]

\* controllers/routes.js optimizeRoute, up to the save
optimizeRouteDoc(doc) ==
    LET optimizedWaypoints == optimizeWaypoints(doc.waypoints)
        m == calculateRouteMetrics(optimizedWaypoints)
    IN [doc EXCEPT !.waypoints = optimizedWaypoints,
                   !.totalDistance = m.totalDistance,
                   !.estimatedDuration = m.estimatedDuration,
                   !.estimatedFuelCost = m.estimatedFuelCost]

\* RouteSchema.methods.startRoute, up to the save
startRouteDoc(doc, t) == [doc EXCEPT !.status = "in-progress", !.actualStartTime = t]

\* Math.floor((end - start) / (1000 * 60)): whole minutes between two dates
WholeMinutes(start, end) == (end - start) \div TicksPerMinute

\* RouteSchema.methods.completeRoute, up to the save
completeRouteDoc(doc, t) ==
    LET done == [doc EXCEPT !.status = "completed", !.actualEndTime = t]
    IN IF done.actualStartTime # NoDate /\ done.actualEndTime # NoDate
       THEN LET actualDuration == WholeMinutes(done.actualStartTime, done.actualEndTime)
                plannedDuration == WholeMinutes(done.plannedStartTime, done.plannedEndTime)
            IN [done EXCEPT !.actualDuration = actualDuration,
                            !.delayTime = Max(0, actualDuration - plannedDuration)]
       ELSE done

\* controllers/routes.js completeRoute: the vehicle goes back to available and
\* takes the trip, the distance and the fuel of the route
completeVehicleDoc(vehicleDoc, routeDoc) ==
    [vehicleDoc EXCEPT
        !.status = "available",
        !.totalTrips = @ + 1,
        !.totalDistance = IF routeDoc.actualDistance \notin {NoNumber, 0}
                          THEN @ + routeDoc.actualDistance ELSE @,
        !.totalFuelConsumed = IF routeDoc.fuelConsumed \notin {NoNumber, 0}
                              THEN @ + routeDoc.fuelConsumed ELSE @]

\* RouteSchema.waypoints.status enum
WaypointStatuses == {"pending", "arrived", "completed", "skipped"}
WaypointPaths == {"id", "type", "lat", "lng", "order", "status", "actualArrival",
                  "actualDeparture"}

\* this.waypoints.id(waypointId): the position of the waypoint, 0 when none
WaypointIndex(waypoints, waypointId) ==
    IF \E i \in 1..Len(waypoints) : waypoints[i].id = waypointId
    THEN CHOOSE i \in 1..Len(waypoints) : waypoints[i].id = waypointId
    ELSE 0

\* RouteSchema.methods.updateWaypointStatus, up to the save
updateWaypointStatusDoc(doc, waypointId, status, timestamp) ==
    LET i == WaypointIndex(doc.waypoints, waypointId)
    IN IF i = 0 THEN doc
       ELSE [doc EXCEPT !.waypoints[i] =
                [@ EXCEPT !.status = status,
                          !.actualArrival = IF status = "arrived" THEN timestamp ELSE @,
                          !.actualDeparture = IF status = "completed" THEN timestamp ELSE @]]

\* RouteSchema.methods.addWaypoint, up to the save: the order index is the
\* length of the handler's list plus one
addWaypointDoc(doc, waypointData) ==
    [doc EXCEPT !.waypoints = Append(@, [waypointData EXCEPT
                                            !.order = Len(doc.waypoints) + 1,
                                            !.status = "pending"])]

\* route.save() after a change inside the waypoints: $set of the changed paths
\* of each waypoint by its position, $push of the appended waypoints
saveWaypoints(db, snap, loc) ==
    [j \in 1..Len(db.waypoints) |->
        IF j <= Len(snap.waypoints)
        THEN [f \in WaypointPaths |->
                IF loc.waypoints[j][f] # snap.waypoints[j][f]
                THEN loc.waypoints[j][f] ELSE db.waypoints[j][f]]
        ELSE db.waypoints[j]]
    \o SubSeq(loc.waypoints, Len(snap.waypoints) + 1, Len(loc.waypoints))

\* route.save(): $set of the changed paths
RoutePaths == {"status", "assignedVehicle", "waypoints", "totalDistance",
               "estimatedDuration", "estimatedFuelCost", "plannedStartTime",
               "plannedEndTime", "actualStartTime", "actualEndTime",
               "actualDuration", "delayTime", "actualDistance", "fuelConsumed"}
saveRoute(db, snap, loc) ==
    [f \in RoutePaths |-> IF loc[f] # snap[f] THEN loc[f] ELSE db[f]]

IdleOReq == [pc |-> "idle", op |-> None, o |-> NoId, v |-> NoId, d |-> None,
             rt |-> NoId, w |-> NoId, status |-> None, path |-> None,
             value |-> None, snapO |-> NoDoc, snapV |-> NoDoc, result |-> None]

\* history entries pushed so far, and those that handlers in flight are still
\* going to push
RECURSIVE SumLen(_, _)
SumLen(docs, ids) ==
    IF ids = {} THEN 0
    ELSE LET i == CHOOSE x \in ids : TRUE
         IN Len(docs[i].statusHistory) + SumLen(docs, ids \ {i})
InFlightO == Cardinality({r \in OReqs :
                    \/ oreq[r].op \in {"updateStatus", "cancel"} /\ oreq[r].pc = "saveOrder"
                    \/ oreq[r].op = "assign" /\ oreq[r].pc \in {"loadVehicle", "saveOrder"}})
HistoryRoom == SumLen(orders, OrderIds) + InFlightO < MaxHist

\* the handler responds; the slot keeps the operation and the outcome of its
\* last request
Done(op, res) == [IdleOReq EXCEPT !.op = op, !.result = res]
Finish(r, res) == Done(oreq[r].op, res)

\* an order that was removed from the collection; its _id is not used again
Removed == [loaded |-> FALSE, removed |-> TRUE]
Exists(o) == orders[o] \notin {NoDoc, Removed}

\* the unique indexes on orderNumber and tracking.trackingNumber: another
\* stored order holds the value
UniquePaths == {"orderNumber", "trackingNumber"}
DuplicateKey(o, path, value) ==
    /\ path \in UniquePaths
    /\ \E o2 \in OrderIds \ {o} : Exists(o2) /\ orders[o2][path] = value

\* controllers/orders.js createOrder: Order.create(req.body) with the body's
\* orderNumber and status; the validation asks for an orderNumber, the pre-save
\* hook composes the tracking number from the time and a random number, the
\* insert fails on a duplicate key
CreateOrder(r, o, orderNumber, status, trackingNumber) ==
    /\ oreq[r].pc = "idle"
    /\ orders[o] = NoDoc
    /\ LET refused(res) == [Done("createOrder", res) EXCEPT !.o = o]
       IN IF orderNumber = None
          THEN orders' = orders /\ oreq' = [oreq EXCEPT ![r] = refused("ValidationError")]
          ELSE IF \/ DuplicateKey(o, "orderNumber", orderNumber)
                  \/ DuplicateKey(o, "trackingNumber", trackingNumber)
          THEN orders' = orders /\ oreq' = [oreq EXCEPT ![r] = refused("DuplicateKey")]
          ELSE /\ orders' = [orders EXCEPT ![o] =
                      [newOrder(orderNumber, trackingNumber, Weight[o], 115) EXCEPT !.status = status]]
               /\ oreq' = [oreq EXCEPT ![r] = refused("ok")]
    /\ UNCHANGED <<vehicles, routes>>
    /\ UNCHANGED invVars

\* controllers/orders.js updateOrder: load the order; the body sets one path
UpdateOrderLoad(r, o, path, value) ==
    /\ oreq[r].pc = "idle"
    /\ LET base == [IdleOReq EXCEPT !.op = "updateOrder", !.o = o, !.path = path, !.value = value]
       IN oreq' = [oreq EXCEPT ![r] =
            IF ~ Exists(o)
            THEN [Done("updateOrder", "NotFound") EXCEPT !.o = o]
            ELSE [base EXCEPT !.pc = "updateOrder"]]
    /\ UNCHANGED <<orders, vehicles, routes>>
    /\ UNCHANGED invVars

\* updateOrder: Order.findByIdAndUpdate(id, req.body, {runValidators}): one
\* $set of the body's paths on the stored order; null when the order is gone
UpdateOrderWrite(r) ==
    /\ oreq[r].pc = "updateOrder" /\ oreq[r].op = "updateOrder"
    /\ LET o == oreq[r].o
           ended(res) == [Finish(r, res) EXCEPT !.o = o, !.path = oreq[r].path,
                                                !.value = oreq[r].value]
       IN IF ~ Exists(o)
          THEN orders' = orders /\ oreq' = [oreq EXCEPT ![r] = ended("ServerError")]
          ELSE IF DuplicateKey(o, oreq[r].path, oreq[r].value)
          THEN orders' = orders /\ oreq' = [oreq EXCEPT ![r] = ended("DuplicateKey")]
          ELSE /\ orders' = [orders EXCEPT ![o][oreq[r].path] = oreq[r].value]
               /\ oreq' = [oreq EXCEPT ![r] = ended("ok")]
    /\ UNCHANGED <<vehicles, routes>>
    /\ UNCHANGED invVars

\* controllers/orders.js deleteOrder: load the order; only a pending or a
\* cancelled order is deleted
DeleteOrderLoad(r, o) ==
    /\ oreq[r].pc = "idle"
    /\ LET base == [IdleOReq EXCEPT !.op = "deleteOrder", !.o = o]
       IN oreq' = [oreq EXCEPT ![r] =
            IF ~ Exists(o)
            THEN [Done("deleteOrder", "NotFound") EXCEPT !.o = o]
            ELSE IF orders[o].status \notin {"pending", "cancelled"}
            THEN [Done("deleteOrder", "InvalidTransition") EXCEPT !.o = o]
            ELSE [base EXCEPT !.pc = "remove"]]
    /\ UNCHANGED <<orders, vehicles, routes>>
    /\ UNCHANGED invVars

\* deleteOrder: order.remove()
DeleteOrderRemove(r) ==
    /\ oreq[r].pc = "remove" /\ oreq[r].op = "deleteOrder"
    /\ orders' = [orders EXCEPT ![oreq[r].o] = IF Exists(oreq[r].o) THEN Removed ELSE @]
    /\ oreq' = [oreq EXCEPT ![r] = [Finish(r, "ok") EXCEPT !.o = oreq[r].o]]
    /\ UNCHANGED <<vehicles, routes>>
    /\ UNCHANGED invVars

\* controllers/orders.js updateOrderStatus: load the order
UpdateStatusLoad(r, o, status) ==
    /\ oreq[r].pc = "idle"
    /\ HistoryRoom
    /\ oreq' = [oreq EXCEPT ![r] = [IdleOReq EXCEPT !.op = "updateStatus", !.o = o,
                                       !.status = status, !.pc = "saveOrder",
                                       !.snapO = orders[o]]]
    /\ UNCHANGED <<orders, vehicles, routes>>
    /\ UNCHANGED invVars

\* order.updateStatus(status, ...): no check of the current status
UpdateStatusSave(r) ==
    /\ oreq[r].pc = "saveOrder" /\ oreq[r].op = "updateStatus"
    /\ LET o == oreq[r].o
           snap == oreq[r].snapO
           loc == updateStatusDoc(snap, oreq[r].status)
           dated == IF oreq[r].status = "delivered" THEN {"actualDeliveryTime"} ELSE {}
       IN orders' = [orders EXCEPT ![o] = saveOrder(orders[o], snap, loc, dated)]
    /\ oreq' = [oreq EXCEPT ![r] = Finish(r, "ok")]
    /\ UNCHANGED <<vehicles, routes>>
    /\ UNCHANGED invVars

\* controllers/orders.js assignOrder: load the order and the driver
AssignLoad(r, o, d, v) ==
    /\ oreq[r].pc = "idle"
    /\ HistoryRoom
    /\ LET base == [IdleOReq EXCEPT !.op = "assign", !.o = o, !.d = d, !.v = v]
       IN oreq' = [oreq EXCEPT ![r] =
            IF role(d) # "driver"
            THEN Done("assign", "InvalidDriver")
            ELSE [base EXCEPT !.pc = "loadVehicle", !.snapO = orders[o]]]
    /\ UNCHANGED <<orders, vehicles, routes>>
    /\ UNCHANGED invVars

\* assignOrder without the capacity check
AssignLoadVehicleNoCapacityCheck(r) ==
    /\ oreq[r].pc = "loadVehicle" /\ oreq[r].op = "assign"
    /\ LET vehicle == vehicles[oreq[r].v]
       IN oreq' = [oreq EXCEPT ![r] =
            IF vehicle.status # "available"
            THEN Finish(r, "VehicleUnavailable")
            ELSE [oreq[r] EXCEPT !.pc = "saveOrder", !.snapV = vehicle]]
    /\ UNCHANGED <<orders, vehicles, routes>>
    /\ UNCHANGED invVars

\* assignOrder: load the vehicle, check that it is available and large enough
AssignLoadVehicle(r) ==
    /\ oreq[r].pc = "loadVehicle" /\ oreq[r].op = "assign"
    /\ LET vehicle == vehicles[oreq[r].v]
       IN oreq' = [oreq EXCEPT ![r] =
            IF vehicle.status # "available"
            THEN Finish(r, "VehicleUnavailable")
            ELSE IF capacityInsufficient(oreq[r].snapO, vehicle)
            THEN Finish(r, "CapacityExceeded")
            ELSE [oreq[r] EXCEPT !.pc = "saveOrder", !.snapV = vehicle]]
    /\ UNCHANGED <<orders, vehicles, routes>>
    /\ UNCHANGED invVars

\* assignOrder: order.assignDriverAndVehicle(driverId, vehicleId)
AssignSaveOrder(r) ==
    /\ oreq[r].pc = "saveOrder" /\ oreq[r].op = "assign"
    /\ LET o == oreq[r].o
           snap == oreq[r].snapO
           loc == assignDriverAndVehicleDoc(snap, oreq[r].d, oreq[r].v)
       IN orders' = [orders EXCEPT ![o] = saveOrder(orders[o], snap, loc, {})]
    /\ oreq' = [oreq EXCEPT ![r].pc = "saveVehicle", ![r].snapO = NoDoc]
    /\ UNCHANGED <<vehicles, routes>>
    /\ UNCHANGED invVars

\* assignOrder: vehicle.status = 'assigned'; vehicle.assignedDriver = driverId;
\* vehicle.save() validates the status against the schema enum
AssignSaveVehicle(r) ==
    /\ oreq[r].pc = "saveVehicle" /\ oreq[r].op = "assign"
    /\ LET v == oreq[r].v
           snap == oreq[r].snapV
           loc == [snap EXCEPT !.status = "assigned", !.assignedDriver = oreq[r].d]
       IN IF vehicleValid(loc)
          THEN /\ vehicles' = [vehicles EXCEPT ![v] = saveVehicle(vehicles[v], snap, loc)]
               /\ oreq' = [oreq EXCEPT ![r] = Finish(r, "ok")]
          ELSE /\ vehicles' = vehicles
               /\ oreq' = [oreq EXCEPT ![r] = Finish(r, "ValidationError")]
    /\ UNCHANGED <<orders, routes>>
    /\ UNCHANGED invVars

\* cancelOrder without the check of the order's status
CancelLoadNoStatusCheck(r, o) ==
    /\ oreq[r].pc = "idle"
    /\ HistoryRoom
    /\ oreq' = [oreq EXCEPT ![r] = [IdleOReq EXCEPT !.op = "cancel", !.o = o,
                                       !.pc = "saveOrder", !.snapO = orders[o]]]
    /\ UNCHANGED <<orders, vehicles, routes>>
    /\ UNCHANGED invVars

\* controllers/orders.js cancelOrder: load the order, check its status
CancelLoad(r, o) ==
    /\ oreq[r].pc = "idle"
    /\ HistoryRoom
    /\ LET base == [IdleOReq EXCEPT !.op = "cancel", !.o = o]
       IN oreq' = [oreq EXCEPT ![r] =
            IF cancelRejected(orders[o])
            THEN [Done("cancel", "InvalidTransition") EXCEPT !.o = o]
            ELSE [base EXCEPT !.pc = "saveOrder", !.snapO = orders[o]]]
    /\ UNCHANGED <<orders, vehicles, routes>>
    /\ UNCHANGED invVars

\* cancelOrder refunding the total amount whatever the status
CancelSaveOrderFullRefund(r) ==
    /\ oreq[r].pc = "saveOrder" /\ oreq[r].op = "cancel"
    /\ LET o == oreq[r].o
           snap == oreq[r].snapO
           loc == cancelOrderDoc(snap, snap.totalAmount)
       IN /\ orders' = [orders EXCEPT ![o] = saveOrder(orders[o], snap, loc, {"cancellation"})]
          /\ oreq' = [oreq EXCEPT ![r] =
                IF snap.assignedVehicle # NoId
                THEN [oreq[r] EXCEPT !.pc = "loadVehicle", !.v = snap.assignedVehicle, !.snapO = NoDoc]
                ELSE Finish(r, "ok")]
    /\ UNCHANGED <<vehicles, routes>>
    /\ UNCHANGED invVars

\* cancelOrder: order.cancelOrder(reason, user, refundAmount); the handler goes
\* on to the vehicle when its copy of the order names one
CancelSaveOrder(r) ==
    /\ oreq[r].pc = "saveOrder" /\ oreq[r].op = "cancel"
    /\ LET o == oreq[r].o
           snap == oreq[r].snapO
           loc == cancelOrderDoc(snap, refundAmountOf(snap))
       IN /\ orders' = [orders EXCEPT ![o] = saveOrder(orders[o], snap, loc, {"cancellation"})]
          /\ oreq' = [oreq EXCEPT ![r] =
                IF snap.assignedVehicle # NoId
                THEN [oreq[r] EXCEPT !.pc = "loadVehicle", !.v = snap.assignedVehicle, !.snapO = NoDoc]
                ELSE Finish(r, "ok")]
    /\ UNCHANGED <<vehicles, routes>>
    /\ UNCHANGED invVars

\* cancelOrder: Vehicle.findById(order.assignedVehicle)
CancelLoadVehicle(r) ==
    /\ oreq[r].pc = "loadVehicle" /\ oreq[r].op = "cancel"
    /\ oreq' = [oreq EXCEPT ![r].pc = "saveVehicle", ![r].snapV = vehicles[oreq[r].v]]
    /\ UNCHANGED <<orders, vehicles, routes>>
    /\ UNCHANGED invVars

\* cancelOrder without the release of the vehicle
CancelSaveVehicleNoRelease(r) ==
    /\ oreq[r].pc = "saveVehicle" /\ oreq[r].op = "cancel"
    /\ oreq' = [oreq EXCEPT ![r] = Finish(r, "ok")]
    /\ UNCHANGED <<orders, vehicles, routes>>
    /\ UNCHANGED invVars

\* cancelOrder: vehicle.status = 'available'; vehicle.assignedDriver = null; save
CancelSaveVehicle(r) ==
    /\ oreq[r].pc = "saveVehicle" /\ oreq[r].op = "cancel"
    /\ LET v == oreq[r].v
           snap == oreq[r].snapV
           loc == [snap EXCEPT !.status = "available", !.assignedDriver = None]
       IN vehicles' = [vehicles EXCEPT ![v] = saveVehicle(vehicles[v], snap, loc)]
    /\ oreq' = [oreq EXCEPT ![r] = Finish(r, "ok")]
    /\ UNCHANGED <<orders, routes>>
    /\ UNCHANGED invVars

\* startRoute without the check of the route's status
StartRouteLoadNoStatusCheck(r, rt) ==
    /\ oreq[r].pc = "idle"
    /\ oreq' = [oreq EXCEPT ![r] = [IdleOReq EXCEPT !.op = "startRoute", !.rt = rt,
                                       !.pc = "saveRoute", !.snapO = routes[rt]]]
    /\ UNCHANGED <<orders, vehicles, routes>>
    /\ UNCHANGED invVars

\* controllers/routes.js startRoute: load the route, require status assigned
StartRouteLoad(r, rt) ==
    /\ oreq[r].pc = "idle"
    /\ LET base == [IdleOReq EXCEPT !.op = "startRoute", !.rt = rt]
       IN oreq' = [oreq EXCEPT ![r] =
            IF routes[rt].status # "assigned"
            THEN [Done("startRoute", "InvalidTransition") EXCEPT !.rt = rt]
            ELSE [base EXCEPT !.pc = "saveRoute", !.snapO = routes[rt]]]
    /\ UNCHANGED <<orders, vehicles, routes>>
    /\ UNCHANGED invVars

\* startRoute: route.startRoute()
StartRouteSave(r) ==
    /\ oreq[r].pc = "saveRoute" /\ oreq[r].op = "startRoute"
    /\ LET rt == oreq[r].rt
           snap == oreq[r].snapO
           loc == startRouteDoc(snap, now)
       IN /\ routes' = [routes EXCEPT ![rt] = saveRoute(routes[rt], snap, loc)]
          /\ oreq' = [oreq EXCEPT ![r] =
                IF snap.assignedVehicle # NoId
                THEN [oreq[r] EXCEPT !.pc = "loadVehicle", !.v = snap.assignedVehicle, !.snapO = NoDoc]
                ELSE Finish(r, "ok")]
    /\ UNCHANGED <<orders, vehicles>>
    /\ UNCHANGED invVars

\* startRoute / completeRoute: Vehicle.findById(route.assignedVehicle)
RouteLoadVehicle(r) ==
    /\ oreq[r].pc = "loadVehicle" /\ oreq[r].op \in {"startRoute", "completeRoute"}
    /\ oreq' = [oreq EXCEPT ![r].pc = "saveVehicle", ![r].snapV = vehicles[oreq[r].v]]
    /\ UNCHANGED <<orders, vehicles, routes>>
    /\ UNCHANGED invVars

\* startRoute: vehicle.status = 'in-transit'; save
StartRouteSaveVehicle(r) ==
    /\ oreq[r].pc = "saveVehicle" /\ oreq[r].op = "startRoute"
    /\ LET v == oreq[r].v
           snap == oreq[r].snapV
           loc == [snap EXCEPT !.status = "in-transit"]
       IN vehicles' = [vehicles EXCEPT ![v] = saveVehicle(vehicles[v], snap, loc)]
    /\ oreq' = [oreq EXCEPT ![r] = Finish(r, "ok")]
    /\ UNCHANGED <<orders, routes>>
    /\ UNCHANGED invVars

\* completeRoute without the check of the route's status
CompleteRouteLoadNoStatusCheck(r, rt) ==
    /\ oreq[r].pc = "idle"
    /\ oreq' = [oreq EXCEPT ![r] = [IdleOReq EXCEPT !.op = "completeRoute", !.rt = rt,
                                       !.pc = "saveRoute", !.snapO = routes[rt]]]
    /\ UNCHANGED <<orders, vehicles, routes>>
    /\ UNCHANGED invVars

\* controllers/routes.js completeRoute: load the route, require in-progress
CompleteRouteLoad(r, rt) ==
    /\ oreq[r].pc = "idle"
    /\ LET base == [IdleOReq EXCEPT !.op = "completeRoute", !.rt = rt]
       IN oreq' = [oreq EXCEPT ![r] =
            IF routes[rt].status # "in-progress"
            THEN [Done("completeRoute", "InvalidTransition") EXCEPT !.rt = rt]
            ELSE [base EXCEPT !.pc = "saveRoute", !.snapO = routes[rt]]]
    /\ UNCHANGED <<orders, vehicles, routes>>
    /\ UNCHANGED invVars

\* completeRoute with a delay that is not cut off at zero
CompleteRouteSaveNoClamp(r) ==
    /\ oreq[r].pc = "saveRoute" /\ oreq[r].op = "completeRoute"
    /\ LET rt == oreq[r].rt
           snap == oreq[r].snapO
           done == completeRouteDoc(snap, now)
           loc == IF done.actualDuration = NoNumber THEN done
                  ELSE [done EXCEPT !.delayTime = done.actualDuration
                                        - WholeMinutes(done.plannedStartTime, done.plannedEndTime)]
       IN /\ routes' = [routes EXCEPT ![rt] = saveRoute(routes[rt], snap, loc)]
          /\ oreq' = [oreq EXCEPT ![r] =
                IF snap.assignedVehicle # NoId
                THEN [oreq[r] EXCEPT !.pc = "loadVehicle", !.v = snap.assignedVehicle, !.snapO = loc]
                ELSE Finish(r, "ok")]
    /\ UNCHANGED <<orders, vehicles>>
    /\ UNCHANGED invVars

\* completeRoute: route.completeRoute(notes, issues)
CompleteRouteSave(r) ==
    /\ oreq[r].pc = "saveRoute" /\ oreq[r].op = "completeRoute"
    /\ LET rt == oreq[r].rt
           snap == oreq[r].snapO
           loc == completeRouteDoc(snap, now)
       IN /\ routes' = [routes EXCEPT ![rt] = saveRoute(routes[rt], snap, loc)]
          /\ oreq' = [oreq EXCEPT ![r] =
                IF snap.assignedVehicle # NoId
                THEN [oreq[r] EXCEPT !.pc = "loadVehicle", !.v = snap.assignedVehicle, !.snapO = loc]
                ELSE Finish(r, "ok")]
    /\ UNCHANGED <<orders, vehicles>>
    /\ UNCHANGED invVars

\* completeRoute: vehicle.status = 'available'; the vehicle metrics take the
\* trip and the metrics of the handler's route; save
CompleteRouteSaveVehicle(r) ==
    /\ oreq[r].pc = "saveVehicle" /\ oreq[r].op = "completeRoute"
    /\ LET v == oreq[r].v
           snap == oreq[r].snapV
           loc == completeVehicleDoc(snap, oreq[r].snapO)
       IN vehicles' = [vehicles EXCEPT ![v] = saveVehicle(vehicles[v], snap, loc)]
    /\ oreq' = [oreq EXCEPT ![r] = Finish(r, "ok")]
    /\ UNCHANGED <<orders, routes>>
    /\ UNCHANGED invVars

\* controllers/routes.js optimizeRoute: load the route
OptimizeRouteLoad(r, rt) ==
    /\ oreq[r].pc = "idle"
    /\ oreq' = [oreq EXCEPT ![r] = [IdleOReq EXCEPT !.op = "optimizeRoute", !.rt = rt,
                                       !.pc = "saveRoute", !.snapO = routes[rt]]]
    /\ UNCHANGED <<orders, vehicles, routes>>
    /\ UNCHANGED invVars

\* optimizeRoute with a reordering that moves the first waypoint to the end
OptimizeRouteSaveRotating(r) ==
    /\ oreq[r].pc = "saveRoute" /\ oreq[r].op = "optimizeRoute"
    /\ LET rt == oreq[r].rt
           snap == oreq[r].snapO
           ws == snap.waypoints
           rotated == IF ws = <<>> THEN ws ELSE Tail(ws) \o <<Head(ws)>>
           optimizedWaypoints == [index \in 1..Len(rotated) |-> [rotated[index] EXCEPT !.order = index]]
           m == calculateRouteMetrics(optimizedWaypoints)
           loc == [snap EXCEPT !.waypoints = optimizedWaypoints,
                               !.totalDistance = m.totalDistance,
                               !.estimatedDuration = m.estimatedDuration,
                               !.estimatedFuelCost = m.estimatedFuelCost]
       IN /\ routes' = [routes EXCEPT ![rt] = saveRoute(routes[rt], snap, loc)]
          /\ oreq' = [oreq EXCEPT ![r] = [Finish(r, "ok") EXCEPT !.rt = rt, !.snapO = loc]]
    /\ UNCHANGED <<orders, vehicles>>
    /\ UNCHANGED invVars

\* optimizeRoute with the deliveries put before the pickups
OptimizeRouteSaveDeliveriesFirst(r) ==
    /\ oreq[r].pc = "saveRoute" /\ oreq[r].op = "optimizeRoute"
    /\ LET rt == oreq[r].rt
           snap == oreq[r].snapO
           ws == snap.waypoints
           reordered == SelectSeqOf(ws, {"delivery"}) \o SelectSeqOf(ws, {"pickup"})
                        \o SelectSeqOf(ws, WaypointTypes \ {"pickup", "delivery"})
           optimizedWaypoints == [index \in 1..Len(reordered) |-> [reordered[index] EXCEPT !.order = index]]
           m == calculateRouteMetrics(optimizedWaypoints)
           loc == [snap EXCEPT !.waypoints = optimizedWaypoints,
                               !.totalDistance = m.totalDistance,
                               !.estimatedDuration = m.estimatedDuration,
                               !.estimatedFuelCost = m.estimatedFuelCost]
       IN /\ routes' = [routes EXCEPT ![rt] = saveRoute(routes[rt], snap, loc)]
          /\ oreq' = [oreq EXCEPT ![r] = [Finish(r, "ok") EXCEPT !.rt = rt, !.snapO = loc]]
    /\ UNCHANGED <<orders, vehicles>>
    /\ UNCHANGED invVars

\* optimizeRoute: reorder, recompute, route.save(); the response carries the
\* handler's route
OptimizeRouteSave(r) ==
    /\ oreq[r].pc = "saveRoute" /\ oreq[r].op = "optimizeRoute"
    /\ LET rt == oreq[r].rt
           snap == oreq[r].snapO
           loc == optimizeRouteDoc(snap)
       IN /\ routes' = [routes EXCEPT ![rt] = saveRoute(routes[rt], snap, loc)]
          /\ oreq' = [oreq EXCEPT ![r] = [Finish(r, "ok") EXCEPT !.rt = rt, !.snapO = loc]]
    /\ UNCHANGED <<orders, vehicles>>
    /\ UNCHANGED invVars

\* RouteSchema.status enum
RouteStatuses == {"draft", "planned", "assigned", "in-progress", "completed",
                  "cancelled", "paused"}
\* req.user.role of the callers of updateRoute
Roles == {"admin", "fleet-manager"}
MaxTrips == 2       \* updates are taken until a vehicle has made this many trips

\* controllers/routes.js updateRoute: load the route; a route in progress is
\* updated for an admin only; the body carries a status
UpdateRouteLoad(r, rt, userRole, status) ==
    /\ oreq[r].pc = "idle"
    /\ \A v \in VehicleIds : vehicles[v].totalTrips < MaxTrips
    /\ LET base == [IdleOReq EXCEPT !.op = "updateRoute", !.rt = rt, !.status = status]
       IN oreq' = [oreq EXCEPT ![r] =
            IF routes[rt].status = "in-progress" /\ userRole # "admin"
            THEN [Done("updateRoute", "InvalidTransition") EXCEPT !.rt = rt]
            ELSE [base EXCEPT !.pc = "updateRoute"]]
    /\ UNCHANGED <<orders, vehicles, routes>>
    /\ UNCHANGED invVars

\* updateRoute: Route.findByIdAndUpdate(id, req.body, {runValidators}): one
\* $set of the body's paths on the stored route
UpdateRouteWrite(r) ==
    /\ oreq[r].pc = "updateRoute" /\ oreq[r].op = "updateRoute"
    /\ routes' = [routes EXCEPT ![oreq[r].rt].status = oreq[r].status]
    /\ oreq' = [oreq EXCEPT ![r] = [Finish(r, "ok") EXCEPT !.rt = oreq[r].rt]]
    /\ UNCHANGED <<orders, vehicles>>
    /\ UNCHANGED invVars

\* controllers/routes.js updateWaypointStatus: load the route
UpdateWaypointStatusLoad(r, rt, waypointId, status) ==
    /\ oreq[r].pc = "idle"
    /\ oreq' = [oreq EXCEPT ![r] = [IdleOReq EXCEPT !.op = "updateWaypointStatus",
                                       !.rt = rt, !.w = waypointId, !.status = status,
                                       !.pc = "saveRoute", !.snapO = routes[rt]]]
    /\ UNCHANGED <<orders, vehicles, routes>>
    /\ UNCHANGED invVars

\* updateWaypointStatus: route.updateWaypointStatus(waypointId, status)
UpdateWaypointStatusSave(r) ==
    /\ oreq[r].pc = "saveRoute" /\ oreq[r].op = "updateWaypointStatus"
    /\ LET rt == oreq[r].rt
           snap == oreq[r].snapO
           loc == updateWaypointStatusDoc(snap, oreq[r].w, oreq[r].status, now)
       IN routes' = [routes EXCEPT ![rt].waypoints = saveWaypoints(routes[rt], snap, loc)]
    /\ oreq' = [oreq EXCEPT ![r] = Finish(r, "ok")]
    /\ UNCHANGED <<orders, vehicles>>
    /\ UNCHANGED invVars

MaxAdded == 1       \* waypoints added to a route after its creation
\* the waypoints of a route at its creation, before updates and additions
InitWaypoints ==
    [i \in 1..1 |-> [id |-> i, type |-> "pickup", lat |-> Latitude[i], lng |-> Longitude,
                     order |-> i, status |-> "pending", actualArrival |-> NoDate,
                     actualDeparture |-> NoDate]]

\* waypoints that handlers in flight are still going to push
InFlightW(rt) == Cardinality({r \in OReqs : /\ oreq[r].op = "addWaypoint"
                                             /\ oreq[r].pc = "saveRoute"
                                             /\ oreq[r].rt = rt})
WaypointRoom(rt) == Len(routes[rt].waypoints) + InFlightW(rt) < Len(InitWaypoints) + MaxAdded

\* addWaypoint without the check of the route's status
AddWaypointLoadNoStatusCheck(r, rt, type) ==
    /\ oreq[r].pc = "idle"
    /\ WaypointRoom(rt)
    /\ oreq' = [oreq EXCEPT ![r] = [IdleOReq EXCEPT !.op = "addWaypoint", !.rt = rt,
                                       !.status = type, !.pc = "saveRoute",
                                       !.snapO = routes[rt]]]
    /\ UNCHANGED <<orders, vehicles, routes>>
    /\ UNCHANGED invVars

\* controllers/routes.js addWaypoint: load the route, refuse a route in progress;
\* the body carries the waypoint's type
AddWaypointLoad(r, rt, type) ==
    /\ oreq[r].pc = "idle"
    /\ WaypointRoom(rt)
    /\ LET base == [IdleOReq EXCEPT !.op = "addWaypoint", !.rt = rt, !.status = type]
       IN oreq' = [oreq EXCEPT ![r] =
            IF routes[rt].status = "in-progress"
            THEN [Done("addWaypoint", "InvalidTransition") EXCEPT !.rt = rt]
            ELSE [base EXCEPT !.pc = "saveRoute", !.snapO = routes[rt]]]
    /\ UNCHANGED <<orders, vehicles, routes>>
    /\ UNCHANGED invVars

\* addWaypoint: route.addWaypoint(req.body); the new subdocument gets an id of
\* its own
AddWaypointSave(r) ==
    /\ oreq[r].pc = "saveRoute" /\ oreq[r].op = "addWaypoint"
    /\ LET rt == oreq[r].rt
           snap == oreq[r].snapO
           waypointData == [id |-> Len(routes[rt].waypoints) + 1, type |-> oreq[r].status,
                            lat |-> Latitude[(Len(routes[rt].waypoints) % 3) + 1],
                            lng |-> Longitude, order |-> 0, status |-> "pending",
                            actualArrival |-> NoDate, actualDeparture |-> NoDate]
           loc == addWaypointDoc(snap, waypointData)
       IN routes' = [routes EXCEPT ![rt].waypoints = saveWaypoints(routes[rt], snap, loc)]
    /\ oreq' = [oreq EXCEPT ![r] = [Finish(r, "ok") EXCEPT !.rt = oreq[r].rt]]
    /\ UNCHANGED <<orders, vehicles>>
    /\ UNCHANGED invVars

\* time passes on the route clock
TickRoute(d) ==
    /\ now + d <= MaxClock
    /\ now' = now + d
    /\ UNCHANGED <<item, ireq>>
    /\ UNCHANGED ordVars

InitInvIdle ==
    /\ item = newInventory(0, 0)
    /\ ireq = [r \in IReqs |-> IdleIReq]
    /\ now = 0

InitOrd ==
    /\ \E a \in TotalAmounts : orders = [o \in OrderIds |-> newOrder(OrderNumber[o], TrackingNumber[o], Weight[o], a)]
    /\ vehicles = InitVehicles
    /\ routes = [rt \in RouteIds |-> newRoute("assigned", RouteVehicle[rt], <<>>,
                                              ActualDistances[rt], FuelConsumed[rt])]
    /\ oreq = [r \in OReqs |-> IdleOReq]
    /\ InitInvIdle

NextOrd ==
    \/ \E r \in OReqs, o \in OrderIds, status \in StatusInputs : UpdateStatusLoad(r, o, status)
    \/ \E r \in OReqs : UpdateStatusSave(r)
    \/ \E r \in OReqs, o \in OrderIds, d \in Users, v \in VehicleIds : AssignLoad(r, o, d, v)
    \/ \E r \in OReqs : AssignLoadVehicle(r)
    \/ \E r \in OReqs : AssignSaveOrder(r)
    \/ \E r \in OReqs : AssignSaveVehicle(r)
    \/ \E r \in OReqs, o \in OrderIds : CancelLoad(r, o)
    \/ \E r \in OReqs : CancelSaveOrder(r)
    \/ \E r \in OReqs : CancelLoadVehicle(r)
    \/ \E r \in OReqs : CancelSaveVehicle(r)
    \/ \E r \in OReqs, rt \in RouteIds : StartRouteLoad(r, rt)
    \/ \E r \in OReqs : StartRouteSave(r)
    \/ \E r \in OReqs : RouteLoadVehicle(r)
    \/ \E r \in OReqs : StartRouteSaveVehicle(r)
    \/ \E r \in OReqs, rt \in RouteIds : CompleteRouteLoad(r, rt)
    \/ \E r \in OReqs : CompleteRouteSave(r)
    \/ \E r \in OReqs : CompleteRouteSaveVehicle(r)

SpecOrd == InitOrd /\ [][NextOrd]_vars

\* the order handlers next to routes that are started but not yet completed
NextCancel ==
    \/ \E r \in OReqs, o \in OrderIds, status \in StatusInputs : UpdateStatusLoad(r, o, status)
    \/ \E r \in OReqs : UpdateStatusSave(r)
    \/ \E r \in OReqs, o \in OrderIds, d \in Users, v \in VehicleIds : AssignLoad(r, o, d, v)
    \/ \E r \in OReqs : AssignLoadVehicle(r)
    \/ \E r \in OReqs : AssignSaveOrder(r)
    \/ \E r \in OReqs : AssignSaveVehicle(r)
    \/ \E r \in OReqs, o \in OrderIds : CancelLoad(r, o)
    \/ \E r \in OReqs : CancelSaveOrder(r)
    \/ \E r \in OReqs : CancelLoadVehicle(r)
    \/ \E r \in OReqs : CancelSaveVehicle(r)
    \/ \E r \in OReqs, rt \in RouteIds : StartRouteLoad(r, rt)
    \/ \E r \in OReqs : StartRouteSave(r)
    \/ \E r \in OReqs : RouteLoadVehicle(r)
    \/ \E r \in OReqs : StartRouteSaveVehicle(r)

SpecCancel == InitOrd /\ [][NextCancel]_vars

InitOrdIdle ==
    /\ orders = [o \in OrderIds |-> newOrder(OrderNumber[o], TrackingNumber[o], Weight[o], 115)]
    /\ vehicles = InitVehicles
    /\ routes = [rt \in RouteIds |-> newRoute("assigned", RouteVehicle[rt], <<>>,
                                              ActualDistances[rt], FuelConsumed[rt])]
    /\ oreq = [r \in OReqs |-> IdleOReq]

InitInv ==
    /\ \E cur \in InitCurrents, rp \in ReorderPoints : item = newInventory(cur, rp)
    /\ ireq = [r \in IReqs |-> IdleIReq]
    /\ now = 0
    /\ InitOrdIdle

NextInv ==
    \/ \E r \in IReqs, type \in MovementTypes, quantity \in Quantities : AddMovementLoad(r, type, quantity)
    \/ \E r \in IReqs : AddMovementSave(r)
    \/ \E r \in IReqs, quantity \in Quantities : ReserveStockLoad(r, quantity)
    \/ \E r \in IReqs : ReserveStockSave(r)
    \/ \E r \in IReqs, quantity \in Quantities : ReleaseReservedStockLoad(r, quantity)
    \/ \E r \in IReqs : ReleaseReservedStockSave(r)
    \/ \E r \in IReqs : CheckAlertsLoad(r)
    \/ \E r \in IReqs : CheckAlertsSave(r)

SpecInv == InitInv /\ [][NextInv]_vars

\* the handlers that write the stock, without the alert check
NextStock ==
    \/ \E r \in IReqs, type \in MovementTypes, quantity \in Quantities : AddMovementLoad(r, type, quantity)
    \/ \E r \in IReqs : AddMovementSave(r)
    \/ \E r \in IReqs, quantity \in Quantities : ReserveStockLoad(r, quantity)
    \/ \E r \in IReqs : ReserveStockSave(r)
    \/ \E r \in IReqs, quantity \in Quantities : ReleaseReservedStockLoad(r, quantity)
    \/ \E r \in IReqs : ReleaseReservedStockSave(r)

SpecStock == InitInv /\ [][NextStock]_vars

\* the handlers that write the stock, next to the update of the item by body
NextItem ==
    \/ \E r \in IReqs, type \in MovementTypes, quantity \in Quantities : AddMovementLoad(r, type, quantity)
    \/ \E r \in IReqs : AddMovementSave(r)
    \/ \E r \in IReqs, quantity \in Quantities : ReserveStockLoad(r, quantity)
    \/ \E r \in IReqs : ReserveStockSave(r)
    \/ \E r \in IReqs, quantity \in Quantities : ReleaseReservedStockLoad(r, quantity)
    \/ \E r \in IReqs : ReleaseReservedStockSave(r)
    \/ \E r \in IReqs, body \in UpdateBodies : UpdateInventoryItemLoad(r, body)
    \/ \E r \in IReqs : UpdateInventoryItemWrite(r)

SpecItem == InitInv /\ [][NextItem]_vars

InitRoute ==
    /\ orders = [o \in OrderIds |-> newOrder(OrderNumber[o], TrackingNumber[o], Weight[o], 115)]
    /\ vehicles = InitVehicles
    /\ \E st \in RouteInitStatuses :
          routes = [rt \in RouteIds |-> newRoute(st, RouteVehicle[rt], <<>>,
                                                ActualDistances[rt], FuelConsumed[rt])]
    /\ oreq = [r \in OReqs |-> IdleOReq]
    /\ InitInvIdle

NextRoute ==
    \/ \E r \in OReqs, rt \in RouteIds : StartRouteLoad(r, rt)
    \/ \E r \in OReqs : StartRouteSave(r)
    \/ \E r \in OReqs : RouteLoadVehicle(r)
    \/ \E r \in OReqs : StartRouteSaveVehicle(r)
    \/ \E r \in OReqs, rt \in RouteIds : CompleteRouteLoad(r, rt)
    \/ \E r \in OReqs : CompleteRouteSave(r)
    \/ \E r \in OReqs : CompleteRouteSaveVehicle(r)
    \/ \E d \in TickSteps : TickRoute(d)

SpecRoute == InitRoute /\ [][NextRoute]_vars

InitOpt ==
    /\ orders = [o \in OrderIds |-> newOrder(OrderNumber[o], TrackingNumber[o], Weight[o], 115)]
    /\ vehicles = InitVehicles
    /\ \E ws \in WaypointLists :
          routes = [rt \in RouteIds |-> newRoute("planned", RouteVehicle[rt], ws,
                                                ActualDistances[rt], FuelConsumed[rt])]
    /\ oreq = [r \in OReqs |-> IdleOReq]
    /\ InitInvIdle

NextOpt ==
    \/ \E r \in OReqs, rt \in RouteIds : OptimizeRouteLoad(r, rt)
    \/ \E r \in OReqs : OptimizeRouteSave(r)

SpecOpt == InitOpt /\ [][NextOpt]_vars

\* the route lifecycle: routes created with the default status, then updated,
\* started and completed
InitLife ==
    /\ orders = [o \in OrderIds |-> newOrder(OrderNumber[o], TrackingNumber[o], Weight[o], 115)]
    /\ vehicles = InitVehicles
    /\ routes = [rt \in RouteIds |-> newRoute("draft", RouteVehicle[rt], <<>>,
                                              ActualDistances[rt], FuelConsumed[rt])]
    /\ oreq = [r \in OReqs |-> IdleOReq]
    /\ InitInvIdle

NextLife ==
    \/ \E r \in OReqs, rt \in RouteIds, userRole \in Roles, status \in RouteStatuses :
          UpdateRouteLoad(r, rt, userRole, status)
    \/ \E r \in OReqs : UpdateRouteWrite(r)
    \/ \E r \in OReqs, rt \in RouteIds : StartRouteLoad(r, rt)
    \/ \E r \in OReqs : StartRouteSave(r)
    \/ \E r \in OReqs : RouteLoadVehicle(r)
    \/ \E r \in OReqs : StartRouteSaveVehicle(r)
    \/ \E r \in OReqs, rt \in RouteIds : CompleteRouteLoad(r, rt)
    \/ \E r \in OReqs : CompleteRouteSave(r)
    \/ \E r \in OReqs : CompleteRouteSaveVehicle(r)

SpecLife == InitLife /\ [][NextLife]_vars

\* the waypoints of a route that is assigned and may be started
AddedTypes == {"fuel-stop"}

InitWay ==
    /\ orders = [o \in OrderIds |-> newOrder(OrderNumber[o], TrackingNumber[o], Weight[o], 115)]
    /\ vehicles = InitVehicles
    /\ routes = [rt \in RouteIds |-> newRoute("assigned", RouteVehicle[rt], InitWaypoints,
                                              ActualDistances[rt], FuelConsumed[rt])]
    /\ oreq = [r \in OReqs |-> IdleOReq]
    /\ InitInvIdle

NextWay ==
    \/ \E r \in OReqs, rt \in RouteIds, waypointId \in 1..Len(InitWaypoints), status \in WaypointStatuses :
          UpdateWaypointStatusLoad(r, rt, waypointId, status)
    \/ \E r \in OReqs : UpdateWaypointStatusSave(r)
    \/ \E r \in OReqs, rt \in RouteIds, type \in AddedTypes : AddWaypointLoad(r, rt, type)
    \/ \E r \in OReqs : AddWaypointSave(r)
    \/ \E r \in OReqs, rt \in RouteIds : StartRouteLoad(r, rt)
    \/ \E r \in OReqs : StartRouteSave(r)
    \/ \E r \in OReqs : RouteLoadVehicle(r)
    \/ \E r \in OReqs : StartRouteSaveVehicle(r)

SpecWay == InitWay /\ [][NextWay]_vars

\* the orders as a collection: created with numbers and a status from the
\* body, updated by body, deleted
OrderNumberInputs == {None, "ORD-1", "ORD-2"}
TrackingNumbers == {"TRK1", "TRK2"}
CreateStatuses == {"pending", "confirmed"}

InitIdent ==
    /\ orders = [o \in OrderIds |-> NoDoc]
    /\ vehicles = InitVehicles
    /\ routes = [rt \in RouteIds |-> newRoute("assigned", RouteVehicle[rt], <<>>,
                                              ActualDistances[rt], FuelConsumed[rt])]
    /\ oreq = [r \in OReqs |-> IdleOReq]
    /\ InitInvIdle

NextIdent ==
    \/ \E r \in OReqs, o \in OrderIds, orderNumber \in OrderNumberInputs,
          status \in CreateStatuses, trackingNumber \in TrackingNumbers :
          CreateOrder(r, o, orderNumber, status, trackingNumber)
    \/ \E r \in OReqs, o \in OrderIds, value \in OrderNumberInputs \ {None} :
          UpdateOrderLoad(r, o, "orderNumber", value)
    \/ \E r \in OReqs, o \in OrderIds, value \in TrackingNumbers :
          UpdateOrderLoad(r, o, "trackingNumber", value)
    \/ \E r \in OReqs : UpdateOrderWrite(r)
    \/ \E r \in OReqs, o \in OrderIds : DeleteOrderLoad(r, o)
    \/ \E r \in OReqs : DeleteOrderRemove(r)

SpecIdent == InitIdent /\ [][NextIdent]_vars

\* the handlers that write the status and the history of an order, next to the
\* update of an order by body
HistoryBodies == {<<"status", "confirmed">>, <<"statusHistory", <<>>>>}

NextHist ==
    \/ \E r \in OReqs, o \in OrderIds, status \in StatusInputs : UpdateStatusLoad(r, o, status)
    \/ \E r \in OReqs : UpdateStatusSave(r)
    \/ \E r \in OReqs, o \in OrderIds, body \in HistoryBodies : UpdateOrderLoad(r, o, body[1], body[2])
    \/ \E r \in OReqs : UpdateOrderWrite(r)

SpecHist == InitOrd /\ [][NextHist]_vars

\* one order given the vehicle of a route, delivered or cancelled, while the
\* route is started and completed. A handler that has begun runs to its end
\* (every await of it settles), so its later steps are weakly fair; nothing
\* makes a new request arrive
NextHold ==
    \/ \E r \in OReqs : UpdateStatusLoad(r, 1, "delivered")
    \/ \E r \in OReqs : UpdateStatusSave(r)
    \/ \E r \in OReqs : AssignLoad(r, 1, "driver1", RouteVehicle[1])
    \/ \E r \in OReqs : AssignLoadVehicle(r)
    \/ \E r \in OReqs : AssignSaveOrder(r)
    \/ \E r \in OReqs : AssignSaveVehicle(r)
    \/ \E r \in OReqs : CancelLoad(r, 1)
    \/ \E r \in OReqs : CancelSaveOrder(r)
    \/ \E r \in OReqs : CancelLoadVehicle(r)
    \/ \E r \in OReqs : CancelSaveVehicle(r)
    \/ \E r \in OReqs, rt \in RouteIds : StartRouteLoad(r, rt)
    \/ \E r \in OReqs : StartRouteSave(r)
    \/ \E r \in OReqs : RouteLoadVehicle(r)
    \/ \E r \in OReqs : StartRouteSaveVehicle(r)
    \/ \E r \in OReqs, rt \in RouteIds : CompleteRouteLoad(r, rt)
    \/ \E r \in OReqs : CompleteRouteSave(r)
    \/ \E r \in OReqs : CompleteRouteSaveVehicle(r)

HandlersFinish ==
    \A r \in OReqs :
        /\ WF_vars(UpdateStatusSave(r))
        /\ WF_vars(AssignLoadVehicle(r))
        /\ WF_vars(AssignSaveOrder(r))
        /\ WF_vars(AssignSaveVehicle(r))
        /\ WF_vars(CancelSaveOrder(r))
        /\ WF_vars(CancelLoadVehicle(r))
        /\ WF_vars(CancelSaveVehicle(r))
        /\ WF_vars(StartRouteSave(r))
        /\ WF_vars(RouteLoadVehicle(r))
        /\ WF_vars(StartRouteSaveVehicle(r))
        /\ WF_vars(CompleteRouteSave(r))
        /\ WF_vars(CompleteRouteSaveVehicle(r))

FairHold == InitOrd /\ [][NextHold]_vars /\ HandlersFinish

\* the order indices of the waypoints: routes created with the waypoints of the
\* body, whose order values the caller chooses, then additions and optimizations
CallerOrders == {1, 2}
CreatedWaypointLists ==
    {<<>>} \cup {<<[InitWaypoints[1] EXCEPT !.order = k]>> : k \in CallerOrders}

InitIndex ==
    /\ orders = [o \in OrderIds |-> newOrder(OrderNumber[o], TrackingNumber[o], Weight[o], 115)]
    /\ vehicles = InitVehicles
    /\ \E ws \in CreatedWaypointLists :
          routes = [rt \in RouteIds |-> newRoute("planned", RouteVehicle[rt], ws,
                                                ActualDistances[rt], FuelConsumed[rt])]
    /\ oreq = [r \in OReqs |-> IdleOReq]
    /\ InitInvIdle

NextIndex ==
    \/ \E r \in OReqs, rt \in RouteIds, type \in AddedTypes : AddWaypointLoad(r, rt, type)
    \/ \E r \in OReqs : AddWaypointSave(r)
    \/ \E r \in OReqs, rt \in RouteIds : OptimizeRouteLoad(r, rt)
    \/ \E r \in OReqs : OptimizeRouteSave(r)

SpecIndex == InitIndex /\ [][NextIndex]_vars

(***************************************************************************)
(* Properties of the inventory ledger                                      *)
(***************************************************************************)
RECURSIVE SumQuantity(_)
SumQuantity(ms) == IF ms = <<>> THEN 0 ELSE Head(ms).quantity + SumQuantity(Tail(ms))

\* C1: the stored stock always satisfies available = current - reserved,
\* available >= 0 and current >= 0 (so reserved never exceeds current)
C1_StockInvariant ==
    /\ item.available = item.current - item.reserved
    /\ item.available >= 0
    /\ item.current >= 0

\* C4: reservations that succeeded never add up to more than the stock they
\* were taken from: while the ledger holds nothing but reservations (current
\* is still the starting stock, 10), their quantities sum to at most current,
\* so of two overlapping reserveStock(6) calls at most one succeeds
C4_ReservationsWithinStock ==
    (\A i \in 1..Len(item.movements) : item.movements[i].reason = "Reserved")
        => SumQuantity(item.movements) <= item.current

\* C10: an addMovement of a decrease kind whose quantity exceeds the stock.current
\* it loads ends at once with InsufficientStock and the item is unchanged
C10_DecreaseBeyondCurrentFails ==
    [][\A r \in IReqs :
          (/\ ireq[r].pc = "idle" /\ ireq'[r] # ireq[r]
           /\ ireq'[r].op = "addMovement"
           /\ ireq'[r].type \in DecreaseTypes
           /\ ireq'[r].quantity > item.current)
          => (/\ ireq'[r].pc = "idle"
              /\ ireq'[r].result = "InsufficientStock"
              /\ item' = item)]_vars

\* a decrease larger than the current stock has been refused
C10_Witness ==
    \E r \in IReqs :
        /\ ireq[r].op = "addMovement" /\ ireq[r].type \in DecreaseTypes
        /\ ireq[r].pc = "idle" /\ ireq[r].result = "InsufficientStock"
        /\ ireq[r].quantity > item.current
        /\ item.current > 0
\* the stock.current the item was created with
StartCurrent == CHOOSE cur \in InitCurrents : TRUE

\* C27: decrease movements take effect one after the other: while the ledger
\* holds nothing but decrease movements, stock.current is the starting current
\* minus their quantities, so two overlapping decreases whose quantities sum to
\* more than the stock do not both succeed
C27_DecreasesSerialize ==
    (\A i \in 1..Len(item.movements) :
        item.movements[i].type \in DecreaseTypes /\ item.movements[i].reason = "movement")
    => item.current = StartCurrent - SumQuantity(item.movements)

\* the change of stock.current that a movement of a type stands for
Effect(type, quantity) ==
    IF type \in {"in", "adjustment"} THEN quantity
    ELSE IF type \in {"out", "damaged", "expired", "lost"} THEN 0 - quantity
    ELSE 0

\* C28: the write of an addMovement appends exactly one ledger entry of its
\* type and quantity and leaves stock.reserved as it is; stock.current changes
\* by +quantity for in and adjustment, by -quantity for out, damaged, expired
\* and lost, and not at all for transfer (stated for an item whose current no
\* other handler wrote since this one loaded it)
C28_MovementEffect ==
    [][\A r \in IReqs :
          (ireq[r].op = "addMovement" /\ ireq[r].pc = "save" /\ ireq'[r] # ireq[r])
          => /\ ireq[r].quantity > 0
             /\ ireq'[r].pc = "idle" /\ ireq'[r].result = "ok"
             /\ item'.movements = Append(item.movements,
                                         [type |-> ireq[r].type, quantity |-> ireq[r].quantity,
                                          reason |-> "movement"])
             /\ item'.reserved = item.reserved
             /\ (item.current = ireq[r].snap.current
                 => item'.current = item.current + Effect(ireq[r].type, ireq[r].quantity))]_vars

\* an out movement of 6 and then an adjustment of 6 are in the ledger of the
\* item that started with 10 and has 10 again
C28_Witness ==
    /\ Len(item.movements) = 2
    /\ item.movements[1] = [type |-> "out", quantity |-> 6, reason |-> "movement"]
    /\ item.movements[2] = [type |-> "adjustment", quantity |-> 6, reason |-> "movement"]
    /\ item.current = StartCurrent /\ item.reserved = 0

\* C29: a reserveStock with quantity > 0 ends at once with InsufficientStock
\* and an unchanged item exactly when the quantity is greater than current -
\* reserved; otherwise its write adds the quantity to stock.reserved (stated for
\* an item whose reserved no other handler wrote since this one loaded it) and
\* leaves stock.current as it is
C29_ReserveStock ==
    [][\A r \in IReqs :
          /\ (/\ ireq[r].pc = "idle" /\ ireq'[r] # ireq[r]
              /\ ireq'[r].op = "reserveStock" /\ ireq'[r].quantity > 0)
             => /\ item' = item
                /\ IF ireq'[r].quantity > item.current - item.reserved
                   THEN ireq'[r].pc = "idle" /\ ireq'[r].result = "InsufficientStock"
                   ELSE ireq'[r].pc = "save"
          /\ (ireq[r].op = "reserveStock" /\ ireq[r].pc = "save" /\ ireq'[r] # ireq[r])
             => /\ ireq'[r].pc = "idle" /\ ireq'[r].result = "ok"
                /\ item'.current = item.current
                /\ (item.reserved = ireq[r].snap.reserved
                    => item'.reserved = item.reserved + ireq[r].quantity)]_vars

\* 6 of 10 are reserved, and a further reserveStock(6) was refused
C29_Witness ==
    /\ item.current = 10 /\ item.reserved = 6
    /\ Len(item.movements) = 1 /\ item.movements[1].reason = "Reserved"
    /\ \E r \in IReqs : /\ ireq[r].op = "reserveStock" /\ ireq[r].pc = "idle"
                        /\ ireq[r].result = "InsufficientStock" /\ ireq[r].quantity = 6

IsReserved(m) == m.reason = "Reserved"
IsReleased(m) == m.reason = "Released"
IsIncrease(m) == m.type \in {"in", "adjustment"}
IsDecrease(m) == m.type \in DecreaseTypes

\* C34: stock.reserved is the sum of the quantities of the reservations that
\* succeeded (each left its entry in the ledger) minus the sum of the
\* quantities that were released
C34_ReservedIsBalance ==
    item.reserved = SumQuantity(SelectSeq(item.movements, IsReserved))
                    - SumQuantity(SelectSeq(item.movements, IsReleased))

\* C35: stock.current is the starting current plus the quantities of the ledger
\* entries of the increase kinds minus those of the decrease kinds
C35_LedgerAccountsForCurrent ==
    item.current = StartCurrent + SumQuantity(SelectSeq(item.movements, IsIncrease))
                                - SumQuantity(SelectSeq(item.movements, IsDecrease))

\* C32: the status of the item follows its stock: available <= 0 gives
\* out-of-stock, 0 < available <= reorderPoint gives low-stock, and available >
\* reorderPoint gives a status that is neither of the two
C32_StatusFollowsStock ==
    IF item.available <= 0 THEN item.status = "out-of-stock"
    ELSE IF item.available <= item.reorderPoint THEN item.status = "low-stock"
    ELSE item.status \notin {"out-of-stock", "low-stock"}

(***************************************************************************)
(* Properties of the order lifecycle and of the assignment                 *)
(***************************************************************************)
TerminalStatuses == {"delivered", "cancelled", "returned", "failed"}

\* position of a status in pending -> ... -> delivered
Rank(st) ==
    CASE st = "pending" -> 1 [] st = "confirmed" -> 2 [] st = "processing" -> 3
      [] st = "assigned" -> 4 [] st = "picked-up" -> 5 [] st = "in-transit" -> 6
      [] st = "out-for-delivery" -> 7 [] st = "delivered" -> 8
      [] OTHER -> 9

Quiescent == \A r \in OReqs : oreq[r].pc = "idle"

\* the handler in slot r takes the step
Steps(r) == oreq'[r] # oreq[r]

\* C2: of two overlapping assign calls for different orders on one vehicle at
\* most one gets past the vehicle check and persists its order; the other is
\* refused (VehicleUnavailable) with its order unchanged
C2_OneAssignPerVehicle ==
    \A r1, r2 \in OReqs :
        ~ (/\ r1 # r2
           /\ oreq[r1].op = "assign" /\ oreq[r2].op = "assign"
           /\ oreq[r1].v = oreq[r2].v /\ oreq[r1].o # oreq[r2].o
           /\ oreq[r1].pc = "saveVehicle" /\ oreq[r2].pc = "saveVehicle"
           /\ orders[oreq[r1].o].assignedVehicle = oreq[r1].v
           /\ orders[oreq[r2].o].assignedVehicle = oreq[r2].v)

\* C3: order and vehicle are assigned together: once no assign is between its
\* two writes (also after a failed vehicle write), an order persisted as
\* assigned to a vehicle has that vehicle persisted as assigned with the same
\* driver, and an assigned vehicle has such an order
C3_AssignIsAtomic ==
    (\A r \in OReqs : ~ (oreq[r].op = "assign" /\ oreq[r].pc = "saveVehicle"))
    => /\ \A o \in OrderIds, v \in VehicleIds :
            (orders[o].status = "assigned" /\ orders[o].assignedVehicle = v)
            => (vehicles[v].status = "assigned" /\ vehicles[v].assignedDriver = orders[o].assignedDriver)
       /\ \A v \in VehicleIds :
            vehicles[v].status = "assigned"
            => \E o \in OrderIds : orders[o].status = "assigned" /\ orders[o].assignedVehicle = v

\* C5: updateStatus on an order in a terminal status is refused at once, and
\* no updateStatus write changes an order whose status is terminal
C5_TerminalIsFinal ==
    [][\A r \in OReqs :
          /\ ((oreq[r].pc = "idle" /\ Steps(r) /\ oreq'[r].op = "updateStatus")
              => orders[oreq'[r].o].status \notin TerminalStatuses)
          /\ ((oreq[r].op = "updateStatus" /\ oreq[r].pc = "saveOrder" /\ Steps(r)
               /\ orders[oreq[r].o].status \in TerminalStatuses)
              => orders' = orders)]_vars

\* C6: when no request is in flight, no two orders with a non-terminal status
\* hold the same vehicle, and a vehicle held by such an order is not available
C6_VehicleHeldOnce ==
    Quiescent
    => /\ \A o1, o2 \in OrderIds :
            (/\ o1 # o2
             /\ orders[o1].status \notin TerminalStatuses
             /\ orders[o2].status \notin TerminalStatuses
             /\ orders[o1].assignedVehicle # NoId)
            => orders[o1].assignedVehicle # orders[o2].assignedVehicle
       /\ \A o \in OrderIds, v \in VehicleIds :
            (orders[o].status \notin TerminalStatuses /\ orders[o].assignedVehicle = v)
            => vehicles[v].status # "available"

\* C7: updateStatus of a non-terminal order to an earlier lifecycle stage is
\* refused at once, and an order's status never moves to an earlier stage
C7_NoRegress ==
    [][/\ \A r \in OReqs :
            (oreq[r].pc = "idle" /\ Steps(r) /\ oreq'[r].op = "updateStatus"
             /\ orders[oreq'[r].o].status \notin TerminalStatuses)
            => Rank(oreq'[r].status) >= Rank(orders[oreq'[r].o].status)
       /\ \A o \in OrderIds :
            orders[o].status \notin TerminalStatuses
            => Rank(orders'[o].status) >= Rank(orders[o].status)]_vars

\* C8, as stated: an assign of an order heavier than the vehicle's capacity
\* always ends with CapacityExceeded
C8_AlwaysCapacityExceeded ==
    [][\A r \in OReqs :
          (/\ oreq[r].op = "assign" /\ oreq[r].pc = "loadVehicle" /\ Steps(r)
           /\ capacityInsufficient(oreq[r].snapO, vehicles[oreq[r].v]))
          => oreq'[r].result = "CapacityExceeded"]_vars

\* C8, amended: an assign of an order heavier than the vehicle's capacity
\* always fails and changes neither an order nor a vehicle; with a valid driver
\* the error is CapacityExceeded when the vehicle it loads is available and
\* VehicleUnavailable when it is not; an invalid driver is refused before the
\* vehicle is loaded
C8_OverweightAssignFails ==
    [][\A r \in OReqs :
          /\ (oreq[r].pc = "idle" /\ Steps(r) /\ oreq'[r].result = "InvalidDriver")
             => (orders' = orders /\ vehicles' = vehicles /\ oreq'[r].pc = "idle")
          /\ (/\ oreq[r].op = "assign" /\ oreq[r].pc = "loadVehicle" /\ Steps(r)
              /\ capacityInsufficient(oreq[r].snapO, vehicles[oreq[r].v]))
             => /\ orders' = orders /\ vehicles' = vehicles
                /\ oreq'[r].pc = "idle"
                /\ oreq'[r].result = IF vehicles[oreq[r].v].status = "available"
                                     THEN "CapacityExceeded"
                                     ELSE "VehicleUnavailable"]_vars

\* an overweight assign was refused with CapacityExceeded and nothing changed
C8_Witness ==
    /\ \E r \in OReqs : oreq[r].pc = "idle" /\ oreq[r].result = "CapacityExceeded"
    /\ \A o \in OrderIds : orders[o].status = "pending" /\ orders[o].assignedVehicle = NoId
    /\ vehicles = InitVehicles

\* controllers/orders.js: the two handlers run one after the other
runUpdateStatus(doc, status) == updateStatusDoc(doc, status)
runCancel(doc) == IF cancelRejected(doc) THEN doc ELSE cancelOrderDoc(doc, refundAmountOf(doc))
SerialResults(doc, status) ==
    {runCancel(runUpdateStatus(doc, status)), runUpdateStatus(runCancel(doc), status)}

\* C9: updateStatus and cancel on one order exclude each other: when one of
\* them ran between the load and the write of the other, the order that the
\* later write leaves equals the result of running the two one after the other
C9_UpdateCancelSerial ==
    [][\A r \in OReqs :
          (oreq[r].pc = "saveOrder" /\ Steps(r))
          => /\ \A status \in StatusInputs :
                  (/\ oreq[r].op = "cancel"
                   /\ orders[oreq[r].o] = runUpdateStatus(oreq[r].snapO, status))
                  => orders'[oreq[r].o] \in SerialResults(oreq[r].snapO, status)
             /\ (/\ oreq[r].op = "updateStatus"
                 /\ orders[oreq[r].o] = runCancel(oreq[r].snapO)
                 /\ orders[oreq[r].o] # oreq[r].snapO)
                => orders'[oreq[r].o] \in SerialResults(oreq[r].snapO, oreq[r].status)]_vars

\* C11: a cancel that loads an order whose status is delivered or cancelled
\* ends at once with InvalidTransition; no order (status, statusHistory,
\* cancellation) and no vehicle changes, and no cancel of such an order goes on
\* to a write
C11_CancelOfClosedOrderFails ==
    [][\A r \in OReqs :
          (oreq[r].pc = "idle" /\ Steps(r) /\ oreq'[r].op = "cancel")
          => IF orders[oreq'[r].o].status \in {"delivered", "cancelled"}
             THEN /\ oreq'[r].pc = "idle"
                  /\ oreq'[r].result = "InvalidTransition"
                  /\ orders' = orders /\ vehicles' = vehicles
             ELSE oreq'[r].pc = "saveOrder"]_vars

\* a cancel of a delivered order has been refused
C11_Witness ==
    \E r \in OReqs :
        /\ oreq[r].op = "cancel" /\ oreq[r].pc = "idle"
        /\ oreq[r].result = "InvalidTransition"
        /\ orders[oreq[r].o].status = "delivered"
        /\ orders[oreq[r].o].cancellation = NoCancellation

\* C12: the write of a cancel leaves the order cancelled with
\* refundAmount = totalAmount when the status the handler found was pending,
\* and refundAmount = 0 for every other status it accepts
C12_RefundByStatus ==
    [][\A r \in OReqs :
          (oreq[r].op = "cancel" /\ oreq[r].pc = "saveOrder" /\ Steps(r))
          => LET o == oreq[r].o
                 found == oreq[r].snapO.status
             IN /\ orders'[o].status = "cancelled"
                /\ orders'[o].cancellation.cancelledAt
                /\ orders'[o].cancellation.refundAmount =
                       IF found = "pending" THEN orders[o].totalAmount ELSE 0]_vars

\* a confirmed order has been cancelled without a refund
C12_Witness ==
    \E o \in OrderIds :
        /\ orders[o].status = "cancelled"
        /\ orders[o].cancellation = [cancelledAt |-> TRUE, refundAmount |-> 0]
        /\ Len(orders[o].statusHistory) = 2
        /\ orders[o].statusHistory[1].status = "confirmed"
        /\ orders[o].statusHistory[2].status = "cancelled"
        /\ orders[o].totalAmount > 0

\* C13: a cancel whose order names a vehicle goes on to that vehicle and
\* leaves it with assignedDriver cleared and, unless another handler wrote the
\* vehicle's status since the cancel loaded it, with status available; it
\* writes no other vehicle; a cancel whose order names no vehicle ends with
\* success at the order write and writes no vehicle
C13_CancelReleasesVehicle ==
    [][\A r \in OReqs :
          /\ (oreq[r].op = "cancel" /\ oreq[r].pc = "saveOrder" /\ Steps(r))
             => /\ vehicles' = vehicles
                /\ IF oreq[r].snapO.assignedVehicle = NoId
                   THEN oreq'[r].pc = "idle" /\ oreq'[r].result = "ok"
                   ELSE oreq'[r].pc = "loadVehicle" /\ oreq'[r].v = oreq[r].snapO.assignedVehicle
          /\ (oreq[r].op = "cancel" /\ oreq[r].pc = "loadVehicle" /\ Steps(r))
             => vehicles' = vehicles /\ oreq'[r].pc = "saveVehicle"
          /\ (oreq[r].op = "cancel" /\ oreq[r].pc = "saveVehicle" /\ Steps(r))
             => LET v == oreq[r].v
                IN /\ vehicles'[v].assignedDriver = None
                   /\ (vehicles[v].status = oreq[r].snapV.status
                       => vehicles'[v].status = "available")
                   /\ \A w \in VehicleIds \ {v} : vehicles'[w] = vehicles[w]
                   /\ oreq'[r].pc = "idle" /\ oreq'[r].result = "ok"]_vars

\* an order bound to the vehicle that had a driver has been cancelled, and the
\* vehicle is available without a driver
C13_Witness ==
    \E o \in OrderIds, v \in VehicleIds :
        /\ VehicleDriver[v] # None
        /\ orders[o].status = "cancelled" /\ orders[o].assignedVehicle = v
        /\ vehicles[v].status = "available" /\ vehicles[v].assignedDriver = None
        /\ \E r \in OReqs : oreq[r].op = "cancel" /\ oreq[r].pc = "idle" /\ oreq[r].result = "ok"

C26_AssignOutcome ==
    [][\A r \in OReqs :
          /\ (/\ oreq[r].op = "assign" /\ oreq[r].pc = "saveOrder" /\ Steps(r)
              /\ orders[oreq[r].o] = oreq[r].snapO)
             => LET o == oreq[r].o
                IN /\ orders'[o].status = "assigned"
                   /\ orders'[o].assignedDriver = oreq[r].d
                   /\ orders'[o].assignedVehicle = oreq[r].v
                   /\ orders'[o].statusHistory =
                         Append(orders[o].statusHistory, [status |-> "assigned", automatic |-> TRUE])
          /\ (oreq[r].op = "assign" /\ oreq[r].pc = "saveVehicle" /\ Steps(r))
             => /\ oreq'[r].result = "ok"
                /\ vehicles'[oreq[r].v].status = "assigned"
                /\ vehicles'[oreq[r].v].assignedDriver = oreq[r].d]_vars

(***************************************************************************)
(* Properties of the routes                                                *)
(***************************************************************************)
\* what optimizeRoute computes: the waypoints with their order indices, the
\* distance, the duration and the fuel cost
Optimized(doc) ==
    <<doc.waypoints, doc.totalDistance, doc.estimatedDuration, doc.estimatedFuelCost>>

C16_CompleteRouteMetrics ==
    [][\A r \in OReqs :
          (/\ oreq[r].op = "completeRoute" /\ oreq[r].pc = "saveRoute" /\ Steps(r)
           /\ oreq[r].snapO.actualStartTime # NoDate)
          => LET rt == oreq[r].rt
                 new == oreq'[r].snapO
             IN /\ new.actualStartTime = oreq[r].snapO.actualStartTime
                /\ new.actualEndTime = now
                /\ new.actualDuration
                      = (new.actualEndTime - new.actualStartTime) \div TicksPerMinute
                /\ new.delayTime =
                      Max(0, new.actualDuration
                               - ((new.plannedEndTime - new.plannedStartTime) \div TicksPerMinute))
                /\ new.delayTime >= 0
                /\ (routes[rt] = oreq[r].snapO => routes'[rt] = new)]_vars

\* a route planned for 120 minutes that ran for 150 (and a half) minutes is
\* completed with actualDuration 150 and delayTime 30
C16_Witness ==
    \E rt \in RouteIds :
        /\ routes[rt].status = "completed"
        /\ (routes[rt].plannedEndTime - routes[rt].plannedStartTime) \div TicksPerMinute = 120
        /\ routes[rt].actualStartTime = 0 /\ routes[rt].actualEndTime = 301
        /\ routes[rt].actualDuration = 150 /\ routes[rt].delayTime = 30

\* C17: a startRoute that finds the route in a status other than assigned ends
\* at once with InvalidTransition and changes no route and no vehicle; one that
\* finds it assigned stores status in-progress and actualStartTime = now, then
\* loads the route's vehicle and stores its status as in-transit (unless
\* another handler wrote the vehicle's status since it was loaded), changing
\* nothing else of the vehicle and no other vehicle
C17_StartRoute ==
    [][\A r \in OReqs :
          /\ (oreq[r].pc = "idle" /\ Steps(r) /\ oreq'[r].op = "startRoute")
             => /\ routes' = routes /\ vehicles' = vehicles
                /\ IF routes[oreq'[r].rt].status = "assigned"
                   THEN oreq'[r].pc = "saveRoute"
                   ELSE oreq'[r].pc = "idle" /\ oreq'[r].result = "InvalidTransition"
          /\ (oreq[r].op = "startRoute" /\ oreq[r].pc = "saveRoute" /\ Steps(r))
             => LET rt == oreq[r].rt
                IN /\ routes'[rt].status = "in-progress"
                   /\ routes'[rt].actualStartTime = now
                   /\ vehicles' = vehicles
                   /\ oreq'[r].pc = "loadVehicle"
                   /\ oreq'[r].v = routes[rt].assignedVehicle
          /\ (oreq[r].op = "startRoute" /\ oreq[r].pc = "loadVehicle" /\ Steps(r))
             => routes' = routes /\ vehicles' = vehicles /\ oreq'[r].pc = "saveVehicle"
          /\ (oreq[r].op = "startRoute" /\ oreq[r].pc = "saveVehicle" /\ Steps(r))
             => LET v == oreq[r].v
                IN /\ routes' = routes
                   /\ (vehicles[v].status = oreq[r].snapV.status
                       => vehicles'[v] = [vehicles[v] EXCEPT !.status = "in-transit"])
                   /\ \A w \in VehicleIds \ {v} : vehicles'[w] = vehicles[w]
                   /\ oreq'[r].pc = "idle" /\ oreq'[r].result = "ok"]_vars

\* one startRoute has succeeded at a later time than the creation, the route
\* is in progress and its vehicle in transit; a second startRoute was refused
C17_Witness ==
    \E r, r2 \in OReqs, rt \in RouteIds :
        /\ oreq[r].op = "startRoute" /\ oreq[r].pc = "idle" /\ oreq[r].result = "ok"
        /\ oreq[r2].op = "startRoute" /\ oreq[r2].pc = "idle"
        /\ oreq[r2].result = "InvalidTransition" /\ oreq[r2].rt = rt
        /\ routes[rt].status = "in-progress" /\ routes[rt].actualStartTime = 150
        /\ vehicles[routes[rt].assignedVehicle].status = "in-transit"

\* C18: a completeRoute that finds the route in a status other than
\* in-progress ends at once with an error and changes no route and no vehicle;
\* one that finds it in-progress stores status completed, then loads the
\* route's vehicle and stores it with status available, one more trip and the
\* route's distance and fuel added (stated for a vehicle no other handler
\* wrote since it was loaded), changing no other vehicle
C18_CompleteRoute ==
    [][\A r \in OReqs :
          /\ (oreq[r].pc = "idle" /\ Steps(r) /\ oreq'[r].op = "completeRoute")
             => /\ routes' = routes /\ vehicles' = vehicles
                /\ IF routes[oreq'[r].rt].status = "in-progress"
                   THEN oreq'[r].pc = "saveRoute"
                   ELSE oreq'[r].pc = "idle" /\ oreq'[r].result = "InvalidTransition"
          /\ (oreq[r].op = "completeRoute" /\ oreq[r].pc = "saveRoute" /\ Steps(r))
             => LET rt == oreq[r].rt
                IN /\ routes'[rt].status = "completed"
                   /\ vehicles' = vehicles
                   /\ oreq'[r].pc = "loadVehicle"
                   /\ oreq'[r].v = routes[rt].assignedVehicle
          /\ (oreq[r].op = "completeRoute" /\ oreq[r].pc = "loadVehicle" /\ Steps(r))
             => routes' = routes /\ vehicles' = vehicles /\ oreq'[r].pc = "saveVehicle"
          /\ (oreq[r].op = "completeRoute" /\ oreq[r].pc = "saveVehicle" /\ Steps(r))
             => LET v == oreq[r].v
                    rt == oreq[r].rt
                IN /\ routes' = routes
                   /\ (vehicles[v] = oreq[r].snapV
                       => vehicles'[v] =
                            [vehicles[v] EXCEPT
                                !.status = "available",
                                !.totalTrips = @ + 1,
                                !.totalDistance = @ + Max(0, routes[rt].actualDistance),
                                !.totalFuelConsumed = @ + Max(0, routes[rt].fuelConsumed)])
                   /\ \A w \in VehicleIds \ {v} : vehicles'[w] = vehicles[w]
                   /\ oreq'[r].pc = "idle" /\ oreq'[r].result = "ok"]_vars

\* a started route has been completed: its vehicle is available again with
\* one trip and the route's distance; a second completeRoute was refused
C18_Witness ==
    \E r, r2 \in OReqs, rt \in RouteIds :
        /\ oreq[r].op = "completeRoute" /\ oreq[r].pc = "idle" /\ oreq[r].result = "ok"
        /\ oreq[r2].op = "completeRoute" /\ oreq[r2].pc = "idle"
        /\ oreq[r2].result = "InvalidTransition" /\ oreq[r2].rt = rt
        /\ routes[rt].status = "completed" /\ routes[rt].actualStartTime # NoDate
        /\ LET veh == vehicles[routes[rt].assignedVehicle]
           IN /\ veh.status = "available" /\ veh.totalTrips = 1
              /\ veh.totalDistance = routes[rt].actualDistance
              /\ veh.totalDistance > 0

(***************************************************************************)
(* Properties of the reservation release and of the alerts                 *)
(***************************************************************************)
\* C19: a releaseReservedStock whose quantity is greater than the reserved
\* amount it finds is not refused: it goes on to the write (which takes
\* min(quantity, reserved) off reserved)
C19_ReleaseIsClamped ==
    [][\A r \in IReqs :
          (/\ ireq[r].pc = "idle" /\ ireq'[r] # ireq[r]
           /\ ireq'[r].op = "releaseReservedStock"
           /\ ireq'[r].quantity > 0
           /\ ireq'[r].quantity > item.reserved)
          => ireq'[r].pc = "save"]_vars

\* C20: a checkAlerts called less than one day after the low-stock alert last
\* fired fires no low-stock alert (and so leaves lastAlerted alone)
C20_NoRealertWithinInterval ==
    [][\A r \in IReqs :
          (/\ ireq[r].pc = "idle" /\ ireq'[r] # ireq[r]
           /\ ireq'[r].op = "checkAlerts"
           /\ item.lastAlerted # NoDate
           /\ now - item.lastAlerted < 1)
          => ireq'[r].pc = "idle"]_vars

\* the lifecycle of a route, and the statuses that end it
RouteChain == <<"draft", "planned", "assigned", "in-progress", "completed">>
RouteTerminal == {"completed", "cancelled"}
RouteStep(s, t) == \E i \in 1..(Len(RouteChain) - 1) : s = RouteChain[i] /\ t = RouteChain[i + 1]

\* C21: a route's status changes only to the next status of draft -> planned ->
\* assigned -> in-progress -> completed, or to cancelled or paused from a status
\* that is not terminal; the status of a completed route never changes
C21_RouteLifecycle ==
    [][\A rt \in RouteIds :
          LET s == routes[rt].status
              t == routes'[rt].status
          IN s # t => /\ s # "completed"
                      /\ \/ RouteStep(s, t)
                         \/ t \in {"cancelled", "paused"} /\ s \notin RouteTerminal]_vars
\* the waypoint status changes: pending -> arrived, pending -> completed,
\* arrived -> completed, pending -> skipped
WaypointStep(s, t) ==
    \/ s = "pending" /\ t \in {"arrived", "completed", "skipped"}
    \/ s = "arrived" /\ t = "completed"

\* C22: the status of a waypoint changes only along pending -> arrived,
\* pending -> completed, arrived -> completed and pending -> skipped
C22_WaypointLifecycle ==
    [][\A rt \in RouteIds :
          \A i \in 1..Len(routes[rt].waypoints) :
              LET s == routes[rt].waypoints[i].status
                  t == routes'[rt].waypoints[i].status
              IN s # t => WaypointStep(s, t)]_vars

\* C23: an addWaypoint that finds the route in progress ends at once with
\* InvalidTransition and changes no route, so the waypoint list stays as it
\* was; one that finds another status goes on to its write
C23_AddWaypointInProgressFails ==
    [][\A r \in OReqs :
          (oreq[r].pc = "idle" /\ Steps(r) /\ oreq'[r].op = "addWaypoint")
          => IF routes[oreq'[r].rt].status = "in-progress"
             THEN /\ oreq'[r].pc = "idle"
                  /\ oreq'[r].result = "InvalidTransition"
                  /\ routes' = routes
             ELSE oreq'[r].pc = "saveRoute" /\ routes' = routes]_vars

\* an addWaypoint on the started route was refused, and the route still has
\* the waypoints it was created with
C23_Witness ==
    \E r \in OReqs :
        /\ oreq[r].op = "addWaypoint" /\ oreq[r].pc = "idle"
        /\ oreq[r].result = "InvalidTransition"
        /\ routes[oreq[r].rt].status = "in-progress"
        /\ routes[oreq[r].rt].waypoints = InitWaypoints
\* the group of a waypoint: pickups, deliveries, all other types
Group(w) == IF w.type = "pickup" THEN 1 ELSE IF w.type = "delivery" THEN 2 ELSE 3

\* out is the stable partition of in by group, with order indices 1..n: every
\* waypoint of in is in out exactly once and unchanged but for its order index,
\* the groups follow each other, and within a group the waypoints keep the
\* relative order they had in in
StablePartition(in, out) ==
    /\ Len(out) = Len(in)
    /\ \A i \in 1..Len(in) :
          Cardinality({j \in 1..Len(out) : out[j].id = in[i].id}) = 1
    /\ \A j \in 1..Len(out) :
          /\ out[j].order = j
          /\ \E i \in 1..Len(in) : out[j] = [in[i] EXCEPT !.order = j]
    /\ \A j1, j2 \in 1..Len(out) :
          j1 < j2 => /\ Group(out[j1]) <= Group(out[j2])
                     /\ (Group(out[j1]) = Group(out[j2])
                         => WaypointIndex(in, out[j1].id) < WaypointIndex(in, out[j2].id))

Stored(os, o) == os[o] \notin {NoDoc, Removed}

\* C24: no two stored orders have the same order number or the same tracking
\* number, and the order number and the tracking number of a stored order
\* never change
C24_NumbersUniqueAndFixed ==
    [][/\ \A o1, o2 \in OrderIds :
            (o1 # o2 /\ Stored(orders', o1) /\ Stored(orders', o2))
            => /\ orders'[o1].orderNumber # orders'[o2].orderNumber
               /\ orders'[o1].trackingNumber # orders'[o2].trackingNumber
       /\ \A o \in OrderIds :
            (Stored(orders, o) /\ Stored(orders', o))
            => /\ orders'[o].orderNumber = orders[o].orderNumber
               /\ orders'[o].trackingNumber = orders[o].trackingNumber]_vars

\* C25: an order that is stored stays stored; it is never removed
C25_NeverRemoved ==
    [][\A o \in OrderIds : Stored(orders, o) => Stored(orders', o)]_vars
\* C31: the order indices of the waypoints of every route are exactly 1..n,
\* n the number of waypoints, without gap or duplicate
C31_OrderIndicesContiguous ==
    \A rt \in RouteIds :
        LET ws == routes[rt].waypoints
        IN /\ {ws[i].order : i \in 1..Len(ws)} = 1..Len(ws)
           /\ \A i, j \in 1..Len(ws) : i # j => ws[i].order # ws[j].order
\* C33: the statusHistory of an order is append-only: a step appends at most one
\* entry at its end and leaves the earlier entries as they are, and
\* actualDeliveryTime is set only by the save of an updateStatus to delivered
C33_HistoryAppendOnly ==
    [][\A o \in OrderIds :
          LET h == orders[o].statusHistory
              h2 == orders'[o].statusHistory
          IN /\ Len(h) <= Len(h2) /\ Len(h2) <= Len(h) + 1
             /\ SubSeq(h2, 1, Len(h)) = h
             /\ orders'[o].actualDeliveryTime # orders[o].actualDeliveryTime
                    => \E r \in OReqs : /\ oreq[r].op = "updateStatus" /\ oreq[r].pc = "saveOrder"
                                        /\ oreq[r].o = o /\ oreq[r].status = "delivered"
                                        /\ oreq'[r].pc = "idle"]_vars

\* C37: the last entry of a statusHistory that is not empty carries the
\* current status of the order
C37_LastEntryIsStatus ==
    \A o \in OrderIds :
        LET h == orders[o].statusHistory
        IN Len(h) > 0 => h[Len(h)].status = orders[o].status

\* C36: an order carries a cancellation record (cancelledAt set) if and only
\* if its status is cancelled
C36_CancellationIffCancelled ==
    \A o \in OrderIds :
        orders[o].cancellation.cancelledAt <=> orders[o].status = "cancelled"

\* C38: while a route is in-progress no step returns its vehicle to available
C38_HeldWhileInProgress ==
    [][\A rt \in RouteIds :
          LET v == routes[rt].assignedVehicle
          IN routes[rt].status = "in-progress" /\ routes'[rt].status = "in-progress"
                /\ vehicles[v].status # "available"
             => vehicles'[v].status # "available"]_vars

\* C39: a route adds at most one trip to its vehicle: the totalTrips of a
\* vehicle never exceeds the number of completed routes that used it
C39_OneTripPerRoute ==
    \A v \in VehicleIds :
        vehicles[v].totalTrips
            <= Cardinality({rt \in RouteIds : /\ routes[rt].assignedVehicle = v
                                              /\ routes[rt].status = "completed"})

====
